---- MODULE Spec2Model ----
(***************************************************************************)
(* A model of linkbuilder, the command-line client of the CivicEngage      *)
(* Document Center: the credential builder (authorize.rs), the query       *)
(* builder, the folder lookup and the document update (document.rs), the   *)
(* single-request calls and the upload batch (file.rs).                    *)
(*                                                                         *)
(* Each component has its own specification over its own variables; the    *)
(* variables of the other components keep their initial values.            *)
(*                                                                         *)
(* Option<T> is modelled as a sequence of length at most one: None is <<>> *)
(* and Some(v) is <<v>>.  Strings that the code assembles character by     *)
(* character (URLs, query suffixes) are sequences of one-character strings;*)
(* strings that the code only stores and compares are TLA+ strings.        *)
(***************************************************************************)
EXTENDS Integers, Sequences, FiniteSets, TLC

VARIABLES
    \* authorize.rs: UserBuilder
    ub,         \* the UserBuilder: five Option<String> fields
    ubSet,      \* history: the last value handed to each setter, if any
    ubPast,     \* history: what the builds so far have been like
    ubRet,      \* the value returned by the last call on the builder
    \* document.rs: DocQuery
    dq,         \* the DocQuery: six Option fields
    dqSet,      \* history: the last value handed to each setter, if any
    dqRet,      \* the value returned by the last call on the DocQuery
    dqPrev,     \* history: the DocQuery as it was before the last call
    dqCall,     \* history: the last call, a setter with its value or query
    dqQueries,  \* history: the query calls since the last setter call
    \* document.rs: Folders
    fo,         \* the Folders page: source is Option<Vec<Folder>>
    foName,     \* the name handed to the last get_id call
    foRet,      \* the value returned by the last get_id call
    \* authorize.rs, document.rs: the calls that issue one request
    hxPc,       \* "idle", "sent" (a request awaits its response) or "done"
    hxOp,       \* the call in progress or last finished
    hxCalls,    \* the number of calls begun
    hxWire,     \* every request handed to send(), in order
    hxStatus,   \* the status of the last response, None when none arrived
    hxRet,      \* the value returned by the last finished call
    \* file.rs: FileNames::upload
    upNames,    \* the keys of FileNames::names, the stems of the local files
    upId,       \* the folder id handed to upload
    upOrder,    \* the order in which the loop visits the HashMap
    upPc,       \* "idle", "loop", "sent" (a POST awaits its response), "done"
    upIdx,      \* the position in upOrder of the file being handled
    upRec,      \* the local rec
    upBar,      \* the position of the progress bar
    upWire,     \* every POST handed to send(), in order
    upAns,      \* history: the file and status of each response received
    upFault,    \* history: what went wrong outside upload, "none" if nothing
    upRet,      \* the value returned by upload
    \* document.rs: Documents::update and Documents::delete
    docs,       \* the Documents page: source is Option<Vec<Document>>
    dcOp,       \* "update" or "delete", "none" before the call
    dcCommand,  \* the command handed to update
    dcPc,       \* "idle", "loop", "sent" (a request awaits its response), "done"
    dcIdx,      \* the position in the page of the document being handled
    dcRes,      \* the local res
    dcBar,      \* the position of the progress bar
    dcWire,     \* every request handed to send(), in order
    dcAns,      \* history: the statuses of the responses received, in order
    dcFault,    \* history: what went wrong outside the batch, "none" if nothing
    dcRet,      \* the value returned by the batch
    \* document.rs: Documents::total_size
    tsDocs,     \* the Documents page whose sizes are totalled
    tsRet,      \* the value returned by total_size
    \* file.rs: FileNames::not_in
    niLocal,    \* the local index: FileNames::names
    niLinks,    \* the remote links: DocumentLinks::links
    niRet,      \* the value returned by not_in
    \* report.rs: ReportItems::try_from
    rpSizes,    \* the FolderSizes handed to try_from
    rpRet,      \* how try_from ended: Ok, Err or a panic
    \* document.rs: DocInfo; main.rs: the shared DocQuery
    diArgs,     \* the shared DocQuery `args` of main
    diInfos,    \* the DocInfos built so far, in order
    diAt,       \* history: args and url as handed to each DocInfo::new
    diRet,      \* the value returned by the last DocInfo::query
    \* authorize.rs, document.rs, file.rs: the session and its requests
    seUser,     \* the User built from the environment
    sePc,       \* "start", "sent" (the authentication awaits its answer), "authorized", "failed"
    seBody,     \* history: the JSON body of the authentication response, None before
    seAuth,     \* the AuthorizedUser, None before the authorization
    seCalls,    \* history: the call and the header names of every request sent
    seWire,     \* every request handed to send(), in order
    \* document.rs: DocumentLinks::from
    lkDocs,     \* the Documents page the links are built from
    lkRet,      \* the DocumentLinks returned
    \* main.rs: one invocation of the program
    clEnv,      \* the environment variables that are set
    clCommand,  \* cli.command
    clParam,    \* cli.param
    clSource,   \* cli.source and what from_path finds there
    clPc,       \* where main stands
    clQueue,    \* the folder names the command has yet to look up
    clFolders,  \* the page Folders::query returned
    clId,       \* the id get_id returned last
    clDocs,     \* the page Documents::query returned last
    clOp,       \* the batch that runs: upload, update or delete
    clBatch,    \* the items of the batch in the order it takes them
    clIdx,      \* the item of the batch that is next or waited for
    clRes,      \* the results the batch has collected so far
    clBar,      \* the position of the progress bar of the batch
    clWire,     \* the requests sent, oldest first
    clFlight,   \* the requests sent and not yet answered
    clAuthAns,  \* history: the answer to the authentication request
    clFailed,   \* history: the requests of batch items whose answer was a fault
    clLost,     \* history: the requests of batch items that got no response
    clExit      \* what main returned

ubVars == <<ub, ubSet, ubPast, ubRet>>

dqVars == <<dq, dqSet, dqRet, dqPrev, dqCall, dqQueries>>

foVars == <<fo, foName, foRet>>

hxVars == <<hxPc, hxOp, hxCalls, hxWire, hxStatus, hxRet>>

upVars == <<upNames, upId, upOrder, upPc, upIdx, upRec, upBar, upWire, upAns, upFault, upRet>>

dcVars == <<docs, dcOp, dcCommand, dcPc, dcIdx, dcRes, dcBar, dcWire, dcAns, dcFault, dcRet>>

tsVars == <<tsDocs, tsRet>>

niVars == <<niLocal, niLinks, niRet>>

rpVars == <<rpSizes, rpRet>>

diVars == <<diArgs, diInfos, diAt, diRet>>

seVars == <<seUser, sePc, seBody, seAuth, seCalls, seWire>>

lkVars == <<lkDocs, lkRet>>

clVars == <<clEnv, clCommand, clParam, clSource, clPc, clQueue, clFolders, clId, clDocs, clOp, clBatch, clIdx, clRes, clBar, clWire, clFlight, clAuthAns, clFailed, clLost, clExit>>

vars == <<ubVars, dqVars, foVars, hxVars, upVars, dcVars, tsVars, niVars, rpVars, diVars, seVars, lkVars, clVars>>

\* What the actions of a component leave alone: the other components.
ubFrame == <<dqVars, foVars, hxVars, upVars, dcVars, tsVars, niVars, rpVars, diVars, seVars, lkVars, clVars>>

dqFrame == <<ubVars, foVars, hxVars, upVars, dcVars, tsVars, niVars, rpVars, diVars, seVars, lkVars, clVars>>

foFrame == <<ubVars, dqVars, hxVars, upVars, dcVars, tsVars, niVars, rpVars, diVars, seVars, lkVars, clVars>>

hxFrame == <<ubVars, dqVars, foVars, upVars, dcVars, tsVars, niVars, rpVars, diVars, seVars, lkVars, clVars>>

upFrame == <<ubVars, dqVars, foVars, hxVars, dcVars, tsVars, niVars, rpVars, diVars, seVars, lkVars, clVars>>

dcFrame == <<ubVars, dqVars, foVars, hxVars, upVars, tsVars, niVars, rpVars, diVars, seVars, lkVars, clVars>>

tsFrame == <<ubVars, dqVars, foVars, hxVars, upVars, dcVars, niVars, rpVars, diVars, seVars, lkVars, clVars>>

niFrame == <<ubVars, dqVars, foVars, hxVars, upVars, dcVars, tsVars, rpVars, diVars, seVars, lkVars, clVars>>

rpFrame == <<ubVars, dqVars, foVars, hxVars, upVars, dcVars, tsVars, niVars, diVars, seVars, lkVars, clVars>>

diFrame == <<ubVars, dqVars, foVars, hxVars, upVars, dcVars, tsVars, niVars, rpVars, seVars, lkVars, clVars>>

seFrame == <<ubVars, dqVars, foVars, hxVars, upVars, dcVars, tsVars, niVars, rpVars, diVars, lkVars, clVars>>

lkFrame == <<ubVars, dqVars, foVars, hxVars, upVars, dcVars, tsVars, niVars, rpVars, diVars, seVars, clVars>>

clFrame == <<ubVars, dqVars, foVars, hxVars, upVars, dcVars, tsVars, niVars, rpVars, diVars, seVars, lkVars>>

None == <<>>

Some(v) == <<v>>

IsSome(o) == o # <<>>

Unwrap(o) == o[1]

(***************************************************************************)
(* authorize.rs: User and UserBuilder                                      *)
(***************************************************************************)
\* The five fields of UserBuilder, in declaration order.
UserFields == <<"api_key", "partition", "name", "password", "host">>

UserFieldSet == {UserFields[i] : i \in 1..Len(UserFields)}

\* The values the environment may supply for a credential field.
UserValues == {"u", "v"}

\* UserBuilder::default(): every field is None.
UserBuilderDefault == [f \in UserFieldSet |-> None]

\* A setter stores Some(value) in its own field.
SetField(b, f, value) == [b EXCEPT ![f] = Some(value)]

\* The missing-field vector of build: one push per field that is None, in
\* the order of the five `if` statements.
PushIfNone(fields, b, f) == IF b[f] = None THEN Append(fields, f) ELSE fields

\* A missing-field vector that reports name before partition.
BuildFieldsNameFirst(b) ==
    LET f1 == PushIfNone(<<>>, b, "api_key")
        f2 == PushIfNone(f1, b, "name")
        f3 == PushIfNone(f2, b, "partition")
        f4 == PushIfNone(f3, b, "password")
    IN  PushIfNone(f4, b, "host")

BuildFields(b) ==
    LET f1 == PushIfNone(<<>>, b, "api_key")
        f2 == PushIfNone(f1, b, "partition")
        f3 == PushIfNone(f2, b, "name")
        f4 == PushIfNone(f3, b, "password")
    IN  PushIfNone(f4, b, "host")

UserBuildError(fields) == [kind |-> "Err", error |-> "UserBuildError", value |-> fields]

\* A build that reads the password for the name of the User.
BuildNameFromPassword(b) ==
    LET fields == BuildFields(b)
    IN  IF \A f \in UserFieldSet : IsSome(b[f])
        THEN [kind |-> "Ok",
              user |-> [api_key   |-> Unwrap(b["api_key"]),
                        partition |-> Unwrap(b["partition"]),
                        name      |-> Unwrap(b["password"]),
                        password  |-> Unwrap(b["password"]),
                        host      |-> Unwrap(b["host"])]]
        ELSE UserBuildError(fields)

\* UserBuilder::build: the nested `if let Some(..)` chain.
Build(b) ==
    LET fields == BuildFields(b)
    IN  IF IsSome(b["api_key"])
        THEN IF IsSome(b["partition"])
             THEN IF IsSome(b["name"])
                  THEN IF IsSome(b["password"])
                       THEN IF IsSome(b["host"])
                            THEN [kind |-> "Ok",
                                  user |-> [api_key   |-> Unwrap(b["api_key"]),
                                            partition |-> Unwrap(b["partition"]),
                                            name      |-> Unwrap(b["name"]),
                                            password  |-> Unwrap(b["password"]),
                                            host      |-> Unwrap(b["host"])]]
                            ELSE UserBuildError(fields)
                       ELSE UserBuildError(fields)
                  ELSE UserBuildError(fields)
             ELSE UserBuildError(fields)
        ELSE UserBuildError(fields)

\* A build that moves the values out of the builder.
AfterBuildTaken(b) == UserBuilderDefault

\* The builder when build returns: the body assigns to no field of self and
\* clones the values it puts in the User.
AfterBuild(b) == b

ubInit ==
    /\ ub = UserBuilderDefault
    /\ ubSet = [f \in UserFieldSet |-> None]
    /\ ubPast = {}
    /\ ubRet = [kind |-> "self"]

\* The five setters api_key, partition, name, password, host: each returns
\* the builder itself.
UbSetter ==
    \E f \in UserFieldSet, value \in UserValues :
        /\ ub' = SetField(ub, f, value)
        /\ ubSet' = [ubSet EXCEPT ![f] = Some(value)]
        /\ ubRet' = [kind |-> "self"]
        /\ UNCHANGED ubPast
        /\ UNCHANGED ubFrame

\* build(&mut self) with ubPast noting a build that failed ("failed") and a
\* build that succeeded right after one that had ("again").
UbBuild ==
    /\ ubRet' = Build(ub)
    /\ ub' = AfterBuild(ub)
    /\ ubPast' = ubPast \cup
                 (IF Build(ub).kind = "Err"
                  THEN {"failed"}
                  ELSE IF ubRet.kind = "Ok" THEN {"again"} ELSE {})
    /\ UNCHANGED ubSet
    /\ UNCHANGED ubFrame

ubNext == UbSetter \/ UbBuild

\* The fields no setter has been called for, in the fixed order.
IsUnset(f) == ubSet[f] = None

UnsetInOrder == SelectSeq(UserFields, IsUnset)

\* C1: build succeeds if and only if all five fields have been set; on
\* success the User carries exactly the last value set for each field, and
\* when a field is unset build returns an error that holds no User.
C1_BuildAllOrNothing ==
    /\ ubRet.kind \in {"self", "Ok", "Err"}
    /\ ubRet.kind = "Ok" =>
          /\ \A f \in UserFieldSet : IsSome(ubSet[f])
          /\ ubRet.user = [f \in UserFieldSet |-> Unwrap(ubSet[f])]
    /\ ubRet.kind = "Err" =>
          /\ \E f \in UserFieldSet : ubSet[f] = None
          /\ DOMAIN ubRet = {"kind", "error", "value"}

\* A successful build whose five values are not all the same.
C1_Witness ==
    /\ ubRet.kind = "Ok"
    /\ ubRet.user.name = "u"
    /\ ubRet.user.password = "v"

\* C2: for every non-empty set S of unset fields, build returns
\* UserBuildError whose value lists exactly the names of S, each once, in
\* the order api_key, partition, name, password, host, whatever the order
\* of the setter calls was.
C2_MissingFieldsInOrder ==
    ubRet.kind = "Err" =>
        /\ ubRet.error = "UserBuildError"
        /\ ubRet.value = UnsetInOrder
        /\ ubRet.value # <<>>

\* A failed build with partition and host unset and the others set.
C2_Witness ==
    /\ ubRet.kind = "Err"
    /\ ubRet.value = <<"partition", "host">>
    /\ IsSome(ubSet["api_key"]) /\ IsSome(ubSet["name"]) /\ IsSome(ubSet["password"])

\* C30: build leaves the builder as it was, so the builder holds at all
\* times the last value handed to each setter, a build that comes after a
\* failed one and the setting of the missing fields returns a User with the
\* values set before and after the failure, and a successful build that
\* follows a successful build returns a User with the same field values.
C30_BuildKeepsBuilder ==
    /\ [](\A f \in UserFieldSet : ub[f] = ubSet[f])
    /\ [](ubRet.kind = "Ok" => ubRet.user = [f \in UserFieldSet |-> Unwrap(ubSet[f])])
    /\ [][ubRet'.kind # "self" => ub' = ub]_vars
    /\ [][ubRet.kind = "Ok" /\ ubRet'.kind = "Ok" => ubRet'.user = ubRet.user]_vars

\* A build failed, the missing fields were set, a build succeeded and the
\* build after it succeeded again.
C30_Witness ==
    /\ ubPast = {"failed", "again"}
    /\ ubRet.kind = "Ok"

(***************************************************************************)
(* document.rs: DocQuery, the builder of the OData query suffix            *)
(***************************************************************************)
\* The six fields of DocQuery, in declaration order.
QueryFields == <<"top", "skip", "filter", "orderby", "inlinecount", "expand">>

QueryFieldSet == {QueryFields[i] : i \in 1..Len(QueryFields)}

\* Field names as the characters query() writes after "%24".
KeyChars(f) ==
    CASE f = "top"         -> <<"t", "o", "p">>
      [] f = "skip"        -> <<"s", "k", "i", "p">>
      [] f = "filter"      -> <<"f", "i", "l", "t", "e", "r">>
      [] f = "orderby"     -> <<"o", "r", "d", "e", "r", "b", "y">>
      [] f = "inlinecount" -> <<"i", "n", "l", "i", "n", "e", "c", "o", "u", "n", "t">>
      [] f = "expand"      -> <<"e", "x", "p", "a", "n", "d">>

\* The values the callers may hand to the setters: i32 for top and skip,
\* text for the others.
FilterFolder7 == <<"F", "o", "l", "d", "e", "r", "I", "d", " ", "e", "q", " ", "7">>

QueryValues(f) ==
    CASE f = "top"         -> {5, -12}
      [] f = "skip"        -> {0, 100}
      [] f = "filter"      -> {FilterFolder7, <<"a", "&", "b">>}
      [] f = "orderby"     -> {<<"N", "a", "m", "e">>, <<"I", "d", " ", "d", "e", "s", "c">>}
      [] f = "inlinecount" -> {<<"a", "l", "l", "p", "a", "g", "e", "s">>, <<"n", "o", "n", "e">>}
      [] f = "expand"      -> {<<"F", "o", "l", "d", "e", "r">>, <<"?">>}

\* Display of an i32 (format!("{}", arg)): decimal digits, '-' when negative.
Digit(d) == <<"0", "1", "2", "3", "4", "5", "6", "7", "8", "9">>[d + 1]

RECURSIVE Digits(_)
Digits(n) == IF n < 10 THEN <<Digit(n)>> ELSE Append(Digits(n \div 10), Digit(n % 10))

DisplayI32(n) == IF n < 0 THEN <<"-">> \o Digits(0 - n) ELSE Digits(n)

\* The percent-encoding of the characters a URL query cannot carry as they
\* are, among those of the values drawn.
EscapeChar(c) ==
    CASE c = " " -> <<"%", "2", "0">>
      [] c = "&" -> <<"%", "2", "6">>
      [] c = "?" -> <<"%", "3", "F">>
      [] OTHER   -> <<c>>

RECURSIVE EscapeChars(_)
EscapeChars(str) ==
    IF str = <<>> THEN <<>> ELSE EscapeChar(Head(str)) \o EscapeChars(Tail(str))

\* A display that percent-encodes the text values.
DisplayValueEscaped(f, v) == IF f \in {"top", "skip"} THEN DisplayI32(v) ELSE EscapeChars(v)

\* Display of a field value: i32 for top and skip, the text itself otherwise.
DisplayValue(f, v) == IF f \in {"top", "skip"} THEN DisplayI32(v) ELSE v

\* format!("%24<key>={}", arg)
FormatArg(f, v) == <<"%", "2", "4">> \o KeyChars(f) \o <<"=">> \o DisplayValue(f, v)

\* The most query calls in a row followed between two setter calls.
MaxQueries == 2

\* DocQuery::default(): every field is None.
DocQueryDefault == [f \in QueryFieldSet |-> None]

\* The args vector of query(): one push per field that is Some, in the
\* order of the six `if let` statements.
PushIfSome(args, q, f) == IF IsSome(q[f]) THEN Append(args, FormatArg(f, Unwrap(q[f]))) ELSE args

\* An args vector that pushes filter before skip.
QueryArgsFilterFirst(q) ==
    LET a1 == PushIfSome(<<>>, q, "top")
        a2 == PushIfSome(a1, q, "filter")
        a3 == PushIfSome(a2, q, "skip")
        a4 == PushIfSome(a3, q, "orderby")
        a5 == PushIfSome(a4, q, "inlinecount")
    IN  PushIfSome(a5, q, "expand")

QueryArgs(q) ==
    LET a1 == PushIfSome(<<>>, q, "top")
        a2 == PushIfSome(a1, q, "skip")
        a3 == PushIfSome(a2, q, "filter")
        a4 == PushIfSome(a3, q, "orderby")
        a5 == PushIfSome(a4, q, "inlinecount")
    IN  PushIfSome(a5, q, "expand")

\* The loop of query(): the first arg is pushed as is, every later one
\* after "&"; i counts the args pushed so far.
RECURSIVE QueryLoop(_, _, _)
QueryLoop(args, i, query) ==
    IF i = Len(args)
    THEN query
    ELSE QueryLoop(args, i + 1,
                   IF i = 0 THEN query \o args[i + 1] ELSE query \o <<"&">> \o args[i + 1])

\* DocQuery::query
Query(q) == QueryLoop(QueryArgs(q), 0, <<"?">>)

\* A setter that keeps a value already set.
SetQueryFieldOnce(q, f, value) ==
    IF IsSome(q[f]) THEN q ELSE [q EXCEPT ![f] = Some(value)]

\* self.<f> = Some(value), for each of the six setters.
SetQueryField(q, f, value) == [q EXCEPT ![f] = Some(value)]

dqInit ==
    /\ dq = DocQueryDefault
    /\ dqSet = [f \in QueryFieldSet |-> None]
    /\ dqRet = [kind |-> "self"]
    /\ dqPrev = DocQueryDefault
    /\ dqCall = [op |-> "new"]
    /\ dqQueries = 0

\* The six setters top, skip, filter, orderby, inlinecount, expand: each
\* returns the DocQuery itself.
DqSetter ==
    \E f \in QueryFieldSet :
        \E value \in QueryValues(f) :
            /\ dq' = SetQueryField(dq, f, value)
            /\ dqSet' = [dqSet EXCEPT ![f] = Some(value)]
            /\ dqRet' = [kind |-> "self"]
            /\ dqPrev' = dq
            /\ dqCall' = [op |-> "set", field |-> f, value |-> Some(value)]
            /\ dqQueries' = 0
            /\ UNCHANGED dqFrame

\* query(&self) is called: the DocQuery is only read.
DqQuery ==
    /\ dqQueries < MaxQueries
    /\ dqRet' = [kind |-> "String", value |-> Query(dq)]
    /\ dqPrev' = dq
    /\ dqCall' = [op |-> "query"]
    /\ dqQueries' = dqQueries + 1
    /\ UNCHANGED <<dq, dqSet>>
    /\ UNCHANGED dqFrame

dqNext == DqSetter \/ DqQuery

\* The fields a setter has been called for, in the fixed order.
IsQuerySet(f) == IsSome(dqSet[f])

QuerySetInOrder == SelectSeq(QueryFields, IsQuerySet)

\* The pairs of the given fields joined by "&".
RECURSIVE JoinPairs(_)
JoinPairs(fs) ==
    IF fs = <<>>
    THEN <<>>
    ELSE LET pair == <<"%", "2", "4">> \o KeyChars(Head(fs)) \o <<"=">>
                       \o DisplayValue(Head(fs), Unwrap(dqSet[Head(fs)]))
         IN  IF Len(fs) = 1 THEN pair ELSE pair \o <<"&">> \o JoinPairs(Tail(fs))

\* "?%24top=5&%24filter=FolderId eq 7"
QueryTop5Filter7 ==
    <<"?", "%", "2", "4", "t", "o", "p", "=", "5", "&",
      "%", "2", "4", "f", "i", "l", "t", "e", "r", "=">> \o FilterFolder7

\* C4: query serializes the fields that are set, and only those, in the
\* order top, skip, filter, orderby, inlinecount, expand, whatever the
\* order of the setter calls: '?' then the pairs '%24<key>=<value>' joined
\* by '&' with no trailing '&'; with no field set it is "?", and with top=5
\* and filter="FolderId eq 7" it is "?%24top=5&%24filter=FolderId eq 7".
C4_QueryFixedOrder ==
    dqRet.kind = "String" =>
        /\ dqRet.value = <<"?">> \o JoinPairs(QuerySetInOrder)
        /\ dqRet.value[Len(dqRet.value)] # "&"
        /\ (QuerySetInOrder = <<>>) => dqRet.value = <<"?">>
        /\ (/\ QuerySetInOrder = <<"top", "filter">>
            /\ dqSet["top"] = Some(5)
            /\ dqSet["filter"] = Some(FilterFolder7)) => dqRet.value = QueryTop5Filter7

\* query() called with top=5 and filter="FolderId eq 7" set and nothing else.
C4_Witness ==
    /\ dqRet.kind = "String"
    /\ QuerySetInOrder = <<"top", "filter">>
    /\ dqSet["top"] = Some(5)
    /\ dqSet["filter"] = Some(FilterFolder7)
    /\ dqRet.value = QueryTop5Filter7

\* The number of times a character occurs in a string.
Count(c, str) == Cardinality({i \in 1..Len(str) : str[i] = c})

\* The number of times it occurs in the value set for a text field.
CountInValue(c, f) == IF dqSet[f] = <<>> THEN 0 ELSE Count(c, dqSet[f][1])

CountInValues(c) ==
    CountInValue(c, "filter") + CountInValue(c, "orderby")
        + CountInValue(c, "inlinecount") + CountInValue(c, "expand")

\* The number of times query() itself writes it: the leading '?', one '&'
\* between two pairs, the '%' of every key.
CountInFrame(c) ==
    CASE c = "?" -> 1
      [] c = "&" -> IF QuerySetInOrder = <<>> THEN 0 ELSE Len(QuerySetInOrder) - 1
      [] c = "%" -> Len(QuerySetInOrder)
      [] OTHER   -> 0

C17_SettersAndQueryFrame ==
    /\ \A f \in QueryFieldSet : dq[f] = dqSet[f]
    /\ dqCall.op = "set" =>
          /\ dq[dqCall.field] = dqCall.value
          /\ \A g \in QueryFieldSet \ {dqCall.field} : dq[g] = dqPrev[g]
    /\ dqCall.op = "query" => dq = dqPrev

\* A second query call in a row returns the string of the first.
C17_QueryTwiceSame ==
    (dqCall.op = "query" /\ dqCall'.op = "query") => dqRet'.value = dqRet.value

\* C17: each DocQuery setter overwrites the prior value of its own field
\* and leaves the other five fields unchanged, so that after any sequence
\* of setter calls every field holds the last value set for it or is
\* absent if never set; query does not change the builder, and two query
\* calls without a setter call between them return the same string.
C17_SettersOverwriteQueryPure ==
    []C17_SettersAndQueryFrame /\ [][C17_QueryTwiceSame]_vars

\* top was -12 and has been set to 5 with a filter already set, and query
\* has then been called twice.
C17_WitnessQueryTwice ==
    /\ dqQueries = 2
    /\ dqCall.op = "query"
    /\ dq["top"] = Some(5)
    /\ dq["filter"] = Some(FilterFolder7)
    /\ dqRet.value = QueryTop5Filter7

\* A setter call has replaced a value set before.
C17_Witness ==
    /\ dqCall.op = "set"
    /\ dqCall.field = "top"
    /\ dqCall.value = Some(5)
    /\ dqPrev["top"] = Some(-12)
    /\ dqPrev["filter"] = Some(FilterFolder7)
    /\ dq["top"] = Some(5)

(***************************************************************************)
(* document.rs: Folders::get_id                                            *)
(***************************************************************************)
\* The longest page of folders drawn.
MaxFolders == 3

\* The id the code hardcodes for the folder named "Fee in Lieu".
FeeInLieuId == 1884

FeeInLieu == "Fee in Lieu"

\* The fields of Folder that get_id reads: id, name and is_archived.
FolderIds == {None, Some(1), Some(2)}

FolderNames == {"A", FeeInLieu}

FolderArchived == {None, Some(FALSE), Some(TRUE)}

FolderSet == [id : FolderIds, name : FolderNames, is_archived : FolderArchived]

\* The names get_id may be asked for: "B" is the name of no folder.
LookupNames == {"A", "B", FeeInLieu}

\* The pages a folder query may have deserialized.
FolderPages ==
    {[source |-> None]} \cup
    {[source |-> Some(fs)] : fs \in UNION {[1..n -> FolderSet] : n \in 0..MaxFolders}}

\* The test of the second `if` of the loop, with a folder whose is_archived
\* is absent counted as active.
IsActiveMatchUnlessArchived(folder, name) ==
    folder.name = name /\ folder.is_archived # Some(TRUE)

\* The test of the second `if` of the loop.
IsActiveMatch(folder, name) ==
    folder.name = name /\ folder.is_archived = Some(FALSE)

\* A loop that keeps the first match.
RECURSIVE GetIdLoopFirstWins(_, _, _, _)
GetIdLoopFirstWins(folders, i, name, id) ==
    IF i > Len(folders)
    THEN id
    ELSE LET id1 == IF name = FeeInLieu THEN Some(FeeInLieuId) ELSE id
             id2 == IF IsActiveMatch(folders[i], name) /\ id1 = None
                    THEN folders[i].id
                    ELSE id1
         IN  GetIdLoopFirstWins(folders, i + 1, name, id2)

\* The loop of get_id over the folders from position i on, id being the
\* value of the local `id` so far.
RECURSIVE GetIdLoop(_, _, _, _)
GetIdLoop(folders, i, name, id) ==
    IF i > Len(folders)
    THEN id
    ELSE LET id1 == IF name = FeeInLieu THEN Some(FeeInLieuId) ELSE id
             id2 == IF IsActiveMatch(folders[i], name) THEN folders[i].id ELSE id1
         IN  GetIdLoop(folders, i + 1, name, id2)

\* A lookup that returns the id of the last folder of the page, whatever its
\* name.
GetIdOfLastFolder(f, name) ==
    IF IsSome(f.source) /\ Len(Unwrap(f.source)) > 0
    THEN Unwrap(f.source)[Len(Unwrap(f.source))].id
    ELSE None

\* Folders::get_id
GetId(f, name) ==
    IF IsSome(f.source) THEN GetIdLoop(Unwrap(f.source), 1, name, None) ELSE None

foIdle ==
    /\ fo = [source |-> None]
    /\ foName = ""
    /\ foRet = [kind |-> "none"]

foInit ==
    /\ fo \in FolderPages
    /\ foName = ""
    /\ foRet = [kind |-> "none"]

FoGetId ==
    \E name \in LookupNames :
        /\ foName' = name
        /\ foRet' = [kind |-> "Option", value |-> GetId(fo, name)]
        /\ UNCHANGED fo
        /\ UNCHANGED foFrame

foNext == FoGetId

\* The folders of the page, none when the source list is absent.
FoFolders == IF IsSome(fo.source) THEN Unwrap(fo.source) ELSE <<>>

\* The positions of the active folders named as the last get_id asked.
FoActive ==
    {i \in 1..Len(FoFolders) :
        FoFolders[i].name = foName /\ FoFolders[i].is_archived = Some(FALSE)}

FoLastActive == CHOOSE i \in FoActive : \A j \in FoActive : j <= i

FoCalled == foRet.kind = "Option"

\* C5 as stated: get_id(name) returns the id of the last folder in page
\* order that is active and whose name equals name, for every name.
C5_LastActiveMatchAnyName ==
    (FoCalled /\ FoActive # {}) => foRet.value = FoFolders[FoLastActive].id

\* C5, amended: for every name other than "Fee in Lieu", get_id(name)
\* returns the id of the last folder in page order that is active and whose
\* name equals name; an earlier match never overrides a later one.
C5_LastActiveMatch ==
    (FoCalled /\ foName # FeeInLieu /\ FoActive # {}) =>
        foRet.value = FoFolders[FoLastActive].id

\* Two active folders named "A" with ids 1 then 2, followed by a third
\* folder: get_id("A") returned 2.
C5_Witness ==
    /\ FoCalled
    /\ foName = "A"
    /\ Len(FoFolders) = 3
    /\ FoFolders[1] = [id |-> Some(1), name |-> "A", is_archived |-> Some(FALSE)]
    /\ FoFolders[2] = [id |-> Some(2), name |-> "A", is_archived |-> Some(FALSE)]
    /\ FoLastActive = 2
    /\ foRet.value = Some(2)

\* C6: a folder takes part in the lookup only when is_archived is
\* Some(false): for a name other than "Fee in Lieu", get_id returns None
\* when every folder of that name is archived or has no archived flag, when
\* no folder has that name and when the source list is absent.
C6_OnlyActiveFoldersMatch ==
    (FoCalled /\ foName # FeeInLieu /\ FoActive = {}) => foRet.value = None

\* get_id("A") returned None on a page holding an archived folder "A" and a
\* folder "A" without archived flag, both with an id.
C6_Witness ==
    /\ FoCalled
    /\ foName = "A"
    /\ Len(FoFolders) = 2
    /\ FoFolders[1] = [id |-> Some(1), name |-> "A", is_archived |-> Some(TRUE)]
    /\ FoFolders[2] = [id |-> Some(2), name |-> "A", is_archived |-> None]
    /\ foRet.value = None

\* C7: get_id("Fee in Lieu") returns the hardcoded id also when the source
\* list is absent or holds no folder.
C7_FeeInLieuOnEmptyPage ==
    (FoCalled /\ foName = FeeInLieu /\ FoFolders = <<>>) =>
        foRet.value = Some(FeeInLieuId)

\* C8: on every non-empty page get_id("Fee in Lieu") returns the hardcoded
\* id, whatever folders the page holds.
C8_FeeInLieuOnAnyPage ==
    (FoCalled /\ foName = FeeInLieu /\ FoFolders # <<>>) =>
        foRet.value = Some(FeeInLieuId)

\* C21 as stated: for a name other than "Fee in Lieu", whenever the page
\* holds an active folder of that name get_id returns Some id, the id of an
\* active folder of that name.
C21_SomeIdWhenPresent ==
    (FoCalled /\ foName # FeeInLieu /\ FoActive # {}) =>
        /\ foRet.value # <<>>
        /\ \E i \in FoActive : FoFolders[i].id = foRet.value

\* C21, amended: for a name other than "Fee in Lieu", whenever the page
\* holds an active folder of that name, get_id returns Some id exactly when
\* the last such folder has an id, and that id is the id of an active
\* folder of that name; when the last such folder has no id it returns
\* None, even if an earlier one has an id.
C21_SomeIdWhenLastHasId ==
    (FoCalled /\ foName # FeeInLieu /\ FoActive # {}) =>
        /\ (foRet.value # <<>>) <=> (FoFolders[FoLastActive].id # <<>>)
        /\ foRet.value # <<>> =>
              \E i \in FoActive : FoFolders[i].id = foRet.value

\* get_id("A") returned Some(1) on a page whose only active folder "A" has
\* id 1 and is followed by an archived "A" with id 2.
C21_Witness ==
    /\ FoCalled
    /\ foName = "A"
    /\ Len(FoFolders) = 2
    /\ FoFolders[1] = [id |-> Some(1), name |-> "A", is_archived |-> Some(FALSE)]
    /\ FoFolders[2] = [id |-> Some(2), name |-> "A", is_archived |-> Some(TRUE)]
    /\ foRet.value = Some(1)

(***************************************************************************)
(* authorize.rs: AuthorizeInfo::authorize; document.rs: Folders::query and *)
(* Documents::query.  Each sends one request and awaits its response.      *)
(***************************************************************************)
\* The number of calls followed.
MaxCalls == 2

HxOps == {"authorize", "folders_query", "documents_query"}

\* authorize POSTs to the url it is given; the queries GET info.query().
HxRequest(op) ==
    IF op = "authorize"
    THEN [method |-> "POST", op |-> op]
    ELSE [method |-> "GET", op |-> op]

\* What `send().await` may yield: a reqwest error, or a response with a
\* status and a body that does or does not deserialize as the type asked.
HxStatuses == {200, 201, 204, 301, 400, 401, 403, 404, 500, 503}

HxBodies == {"body1", "body2"}

HxOutcomes ==
    {[kind |-> "error"]} \cup
    [kind : {"response"}, status : HxStatuses, json : BOOLEAN, body : HxBodies]

HttpError == [kind |-> "Err", error |-> "HttpError"]

AuthError == [kind |-> "Err", error |-> "AuthError"]

\* A match on the status that reports a 5xx answer as an HTTP error.
HxResultServerError(outcome) ==
    IF outcome.kind = "error"
    THEN HttpError
    ELSE IF outcome.status = 200
         THEN IF outcome.json THEN [kind |-> "Ok", value |-> outcome.body] ELSE HttpError
         ELSE IF outcome.status >= 500 THEN HttpError ELSE AuthError

\* A match that takes every response for a success.
HxResultLenient(outcome) ==
    IF outcome.kind = "error"
    THEN HttpError
    ELSE [kind |-> "Ok", value |-> outcome.body]

\* The `?` after send().await and the match on res.status(): StatusCode::OK
\* gives Ok(res.json().await?), every other status Err(AuthError).
HxResult(outcome) ==
    IF outcome.kind = "error"
    THEN HttpError
    ELSE IF outcome.status = 200
         THEN IF outcome.json THEN [kind |-> "Ok", value |-> outcome.body] ELSE HttpError
         ELSE AuthError

hxInit ==
    /\ hxPc = "idle"
    /\ hxOp = "none"
    /\ hxCalls = 0
    /\ hxWire = <<>>
    /\ hxStatus = None
    /\ hxRet = [kind |-> "none"]

\* A call builds its request and hands it to send().
HxSend ==
    \E op \in HxOps :
        /\ hxPc # "sent"
        /\ hxCalls < MaxCalls
        /\ hxPc' = "sent"
        /\ hxOp' = op
        /\ hxCalls' = hxCalls + 1
        /\ hxWire' = Append(hxWire, HxRequest(op))
        /\ hxStatus' = None
        /\ hxRet' = [kind |-> "none"]
        /\ UNCHANGED hxFrame

\* The await completes and the call returns.
HxReturn ==
    \E outcome \in HxOutcomes :
        /\ hxPc = "sent"
        /\ hxPc' = "done"
        /\ hxStatus' = IF outcome.kind = "response" THEN Some(outcome.status) ELSE None
        /\ hxRet' = HxResult(outcome)
        /\ UNCHANGED <<hxOp, hxCalls, hxWire>>
        /\ UNCHANGED hxFrame

hxNext == HxSend \/ HxReturn

\* C3: authorize, Folders::query and Documents::query each issue exactly
\* one request per call and return Ok only when the response status is 200;
\* every other status, 4xx or 5xx alike, yields the same AuthError, and no
\* request is sent again.
C3_OneRequestOkOnly200 ==
    /\ Len(hxWire) = hxCalls
    /\ hxCalls > 0 => hxWire[hxCalls] = HxRequest(hxOp)
    /\ hxPc = "done" =>
          /\ hxRet.kind \in {"Ok", "Err"}
          /\ hxRet.kind = "Ok" => hxStatus = Some(200)
          /\ (IsSome(hxStatus) /\ hxStatus # Some(200)) => hxRet = AuthError

\* A second call, Folders::query, answered 503: AuthError after one GET.
C3_Witness ==
    /\ hxPc = "done"
    /\ hxCalls = 2
    /\ hxOp = "folders_query"
    /\ hxStatus = Some(503)
    /\ hxRet = AuthError
    /\ Len(hxWire) = 2
    /\ hxWire[2].method = "GET"

(***************************************************************************)
(* file.rs: FileNames::upload                                              *)
(***************************************************************************)
\* The largest batch of local files.
MaxFiles == 3

FilePool == <<"a", "b", "c", "d", "e">>

FileStems == {FilePool[i] : i \in 1..MaxFiles}

UpFolderIds == {42, 1884}

\* The orders in which a HashMap of the given keys may be iterated.
IterationOrders(keys) ==
    {o \in [1..Cardinality(keys) -> keys] : \A i, j \in 1..Cardinality(keys) : o[i] = o[j] => i = j}

\* A body whose FileName is the bare stem.
UploadBodyStem(name, id) ==
    [Name |-> name, FileName |-> <<name>>, FolderId |-> id,
     Status |-> "Published", ConvertToPdf |-> "false", IsVisible |-> "false"]

\* The json! body of the POST for a file.
UploadBody(name, id) ==
    [Name |-> name, FileName |-> <<name, ".pdf">>, FolderId |-> id,
     Status |-> "Published", ConvertToPdf |-> "false", IsVisible |-> "false"]

\* What `send().await` may yield for a POST: a reqwest error, or a response
\* with a status and a body that is a JSON string ("json"), some other text
\* ("text"), or cannot be read to its end ("broken").
UpStatuses == {200, 201, 404, 500}

UpOutcomes ==
    {[kind |-> "error"]} \cup
    [kind : {"response"}, status : UpStatuses, body : {"json", "text", "broken"}]

\* What the response to the POST of a file makes of the loop: a value pushed
\* on rec, nothing, or the error that `?` returns from upload.  The entry
\* pushed is the JSON string of the response body to that file.
UpEntry(name) == [response_to |-> name]

\* A match that returns an error for a status other than 200 and 201.
UpItemFatal(name, outcome) ==
    IF outcome.kind = "error"
    THEN [kind |-> "fail", error |-> HttpError]
    ELSE IF outcome.status \in {200, 201} /\ outcome.body = "json"
         THEN [kind |-> "push", entry |-> UpEntry(name)]
         ELSE [kind |-> "fail", error |-> HttpError]

UpItem(name, outcome) ==
    IF outcome.kind = "error"
    THEN [kind |-> "fail", error |-> HttpError]
    ELSE IF outcome.status = 200
         THEN IF outcome.body = "json"
              THEN [kind |-> "push", entry |-> UpEntry(name)]
              ELSE [kind |-> "fail", error |-> HttpError]
         ELSE IF outcome.status = 201
              THEN IF outcome.body = "json"
                   THEN [kind |-> "push", entry |-> UpEntry(name)]
                   ELSE [kind |-> "fail", error |-> HttpError]
              ELSE IF outcome.body = "broken"
                   THEN [kind |-> "fail", error |-> HttpError]
                   ELSE [kind |-> "skip"]

\* What an outcome holds that upload cannot go on from: no response
\* ("transport"), a body that cannot be read ("body"), or a body answered
\* with 200 or 201 that is no JSON string ("parse").
UpFaultOf(outcome) ==
    IF outcome.kind = "error"
    THEN "transport"
    ELSE IF outcome.body = "broken"
         THEN "body"
         ELSE IF outcome.status \in {200, 201} /\ outcome.body = "text"
              THEN "parse"
              ELSE "none"

upIdle ==
    /\ upNames = {}
    /\ upId = 0
    /\ upOrder = <<>>
    /\ upPc = "idle"
    /\ upIdx = 0
    /\ upRec = <<>>
    /\ upBar = 0
    /\ upWire = <<>>
    /\ upAns = <<>>
    /\ upFault = "none"
    /\ upRet = [kind |-> "none"]

upInit ==
    /\ upNames \in SUBSET FileStems
    /\ upId = 0
    /\ upOrder = <<>>
    /\ upPc = "idle"
    /\ upIdx = 0
    /\ upRec = <<>>
    /\ upBar = 0
    /\ upWire = <<>>
    /\ upAns = <<>>
    /\ upFault = "none"
    /\ upRet = [kind |-> "none"]

\* upload is called: rec is empty, the bar is at 0 and the loop starts over
\* a clone of the map.
UpCall ==
    \E id \in UpFolderIds, order \in IterationOrders(upNames) :
        /\ upPc = "idle"
        /\ upPc' = "loop"
        /\ upId' = id
        /\ upOrder' = order
        /\ upIdx' = 1
        /\ upRec' = <<>>
        /\ upBar' = 0
        /\ UNCHANGED <<upNames, upWire, upAns, upFault, upRet>>
        /\ UNCHANGED upFrame

\* File::open or read_to_end fails: `?` returns the io error.
UpReadFails ==
    /\ upPc = "loop"
    /\ upIdx <= Len(upOrder)
    /\ upPc' = "done"
    /\ upRet' = [kind |-> "Err", error |-> "Io"]
    /\ upFault' = "read"
    /\ UNCHANGED <<upNames, upId, upOrder, upIdx, upRec, upBar, upWire, upAns>>
    /\ UNCHANGED upFrame

\* The file is read and encoded and its POST is handed to send().
UpSend ==
    /\ upPc = "loop"
    /\ upIdx <= Len(upOrder)
    /\ upPc' = "sent"
    /\ upWire' = Append(upWire, [method |-> "POST", body |-> UploadBody(upOrder[upIdx], upId)])
    /\ UNCHANGED <<upNames, upId, upOrder, upIdx, upRec, upBar, upAns, upFault, upRet>>
    /\ UNCHANGED upFrame

\* The await completes: an error returns from upload; a response advances
\* the bar and is matched on its status.
UpReceive ==
    \E outcome \in UpOutcomes :
        LET item == UpItem(upOrder[upIdx], outcome)
        IN  /\ upPc = "sent"
            /\ upBar' = IF outcome.kind = "response" THEN upBar + 1 ELSE upBar
            /\ upAns' = IF outcome.kind = "response"
                        THEN Append(upAns, [name |-> upOrder[upIdx],
                                            status |-> outcome.status])
                        ELSE upAns
            /\ upFault' = UpFaultOf(outcome)
            /\ upRec' = IF item.kind = "push" THEN Append(upRec, item.entry) ELSE upRec
            /\ IF item.kind = "fail"
               THEN /\ upPc' = "done"
                    /\ upRet' = item.error
                    /\ upIdx' = upIdx
               ELSE /\ upPc' = "loop"
                    /\ upRet' = upRet
                    /\ upIdx' = upIdx + 1
            /\ UNCHANGED <<upNames, upId, upOrder, upWire>>
            /\ UNCHANGED upFrame

\* The loop is over: Ok(rec).
UpFinish ==
    /\ upPc = "loop"
    /\ upIdx > Len(upOrder)
    /\ upPc' = "done"
    /\ upRet' = [kind |-> "Ok", value |-> upRec]
    /\ UNCHANGED <<upNames, upId, upOrder, upIdx, upRec, upBar, upWire, upAns, upFault>>
    /\ UNCHANGED upFrame

upNext == UpCall \/ UpReadFails \/ UpSend \/ UpReceive \/ UpFinish

\* The responses with a success status, and the entries they stand for.
IsSuccessAnswer(a) == a.status \in {200, 201}

UpAnsweredEntries(answers) ==
    LET ok == SelectSeq(answers, IsSuccessAnswer)
    IN  [i \in 1..Len(ok) |-> [response_to |-> ok[i].name]]

\* upload has returned, every file was read, every POST sent was answered
\* with a status and every response body arrived whole.
UpAllAnswered ==
    /\ upPc = "done"
    /\ upFault \in {"none", "parse"}
    /\ Len(upAns) = Len(upWire)

\* Every file of the batch was POSTed exactly once, under its own name and
\* with the folder id given.
UpEachFilePostedOnce ==
    /\ Len(upWire) = Cardinality(upNames)
    /\ \A n \in upNames :
          Cardinality({i \in 1..Len(upWire) : upWire[i].body.Name = n}) = 1
    /\ \A i \in 1..Len(upWire) : upWire[i].body.FolderId = upId

MaxDocs == 2

\* The fields of Document followed here: id, name, status, url and
\* is_archived.  Name and url stand for the fields no command touches.
DocumentSet ==
    [id : {1, 2}, name : {"doc"}, status : {None, Some(30)},
     url : {Some("u")}, is_archived : {None, Some(FALSE)}]

\* The pages a document query may have deserialized.
DocumentPages ==
    {[source |-> None]} \cup
    {[source |-> Some(ds)] : ds \in UNION {[1..n -> DocumentSet] : n \in 0..MaxDocs}}

\* The commands the callers may hand to update; "publish" and "" are not
\* commands the match knows.
Commands == {"archive", "draft", "publish", ""}

\* DocumentHeaders::default(): the names of the three custom headers.
DocumentHeadersDefault ==
    [api_key |-> "apikey", partition |-> "partition", user_api_key |-> "userapikey"]

\* A DocInfo that takes only the filter of the query handed to it.
DocInfoNewFilterOnly(headers, query, url) ==
    [headers |-> headers,
     query   |-> [DocQueryDefault EXCEPT !["filter"] = query["filter"]],
     url     |-> url]

\* DocInfo::new: the headers and the query are cloned, the url is copied.
DocInfoNew(headers, query, url) ==
    [headers |-> headers, query |-> query, url |-> url]

\* The url of the document endpoint (the DOCUMENT variable of main).
DocumentUrl == <<"h", "/", "D", "o", "c">>

\* The DocInfo of the document endpoint: the default headers, the DocQuery
\* it was built with and its base url.
DocumentInfo ==
    DocInfoNew(DocumentHeadersDefault,
               [DocQueryDefault EXCEPT !["inlinecount"] = Some(<<"a", "l", "l">>),
                                       !["filter"] = Some(FilterFolder7)],
               DocumentUrl)

\* DocInfo::query: the base url followed by the query suffix.
InfoQuery(info) == info.url \o Query(info.query)

\* serde_json's rendering of the values of the fields: null for None.
JsonNull == <<"null">>

JsonNumber(n) == <<"number", n>>

JsonString(str) == <<"string", str>>

JsonBool(b) == <<"bool", b>>

\* serde_json::to_string of a Document: the keys are the field names in
\* PascalCase, an Option is its value or null.
Serialize(doc) ==
    [Id         |-> JsonNumber(doc.id),
     Name       |-> JsonString(doc.name),
     Status     |-> IF IsSome(doc.status) THEN JsonNumber(Unwrap(doc.status)) ELSE JsonNull,
     Url        |-> IF IsSome(doc.url) THEN JsonString(Unwrap(doc.url)) ELSE JsonNull,
     IsArchived |-> IF IsSome(doc.is_archived) THEN JsonBool(Unwrap(doc.is_archived)) ELSE JsonNull]

\* A match in which "draft" also clears the archived flag.
MutateCloneDraftUnarchives(doc, command) ==
    CASE command = "archive" -> [doc EXCEPT !.is_archived = Some(TRUE)]
      [] command = "draft"   -> [doc EXCEPT !.status = Some(10), !.is_archived = Some(FALSE)]
      [] OTHER               -> doc

\* The clone of the document after the match on command.
MutateClone(doc, command) ==
    CASE command = "archive" -> [doc EXCEPT !.is_archived = Some(TRUE)]
      [] command = "draft"   -> [doc EXCEPT !.status = Some(10)]
      [] OTHER               -> doc

\* format!("{}/{}", info.url_ref(), self.id())
Endpoint(info, doc) == info.url \o <<"/">> \o DisplayI32(doc.id)

\* The PUT of Document::update.
UpdateRequest(doc, info, command) ==
    [method |-> "PUT", endpoint |-> Endpoint(info, doc),
     body |-> Serialize(MutateClone(doc, command))]

\* The DELETE of Document::delete.
DeleteRequest(doc, info) ==
    [method |-> "DELETE", endpoint |-> Endpoint(info, doc)]

\* What `send().await` may yield: a reqwest error, or a response with a
\* status and a body that is a JSON string ("json"), some other text
\* ("text"), or cannot be read to its end ("broken").
DcStatuses == {200, 404, 500}

DcOutcomes ==
    {[kind |-> "error"]} \cup
    [kind : {"response"}, status : DcStatuses, body : {"json", "text", "broken"}]

\* A match in which every status but 200 is an error.
DocResultOnly200(doc, outcome) ==
    IF outcome.kind = "error"
    THEN HttpError
    ELSE IF outcome.status = 200 /\ outcome.body = "json"
         THEN [kind |-> "Ok", value |-> [parsed |-> "json", response_to |-> doc.id]]
         ELSE IF outcome.status = 200 \/ outcome.body = "broken"
              THEN HttpError
              ELSE AuthError

\* The value Document::update and Document::delete return for a document:
\* on 200 the parsed body, on any other status the raw text, and the error
\* of `?` when the request or the reading of the body fails.
DocResult(doc, outcome) ==
    IF outcome.kind = "error"
    THEN HttpError
    ELSE IF outcome.status = 200
         THEN IF outcome.body = "json"
              THEN [kind |-> "Ok", value |-> [parsed |-> "json", response_to |-> doc.id]]
              ELSE HttpError
         ELSE IF outcome.body = "broken"
              THEN HttpError
              ELSE [kind |-> "Ok", value |-> [parsed |-> "text", response_to |-> doc.id]]

\* What an outcome holds that the batch cannot go on from: no response
\* ("transport"), a body that cannot be read ("body"), or a body answered
\* with 200 that is no JSON string ("parse").
DcFaultOf(outcome) ==
    IF outcome.kind = "error"
    THEN "transport"
    ELSE IF outcome.body = "broken"
         THEN "body"
         ELSE IF outcome.status = 200 /\ outcome.body = "text"
              THEN "parse"
              ELSE "none"

\* A push that keeps only the parsed bodies.
DcPushParsedOnly(res, value) ==
    IF value.parsed = "json" THEN Append(res, value) ELSE res

\* res.push(..): the value of the document's call goes to the end of res.
DcPush(res, value) == Append(res, value)

\* The documents the loops run over: none when the source list is absent.
DcDocs == IF IsSome(docs.source) THEN Unwrap(docs.source) ELSE <<>>

dcIdle ==
    /\ docs = [source |-> None]
    /\ dcOp = "none"
    /\ dcCommand = ""
    /\ dcPc = "idle"
    /\ dcIdx = 0
    /\ dcRes = <<>>
    /\ dcBar = 0
    /\ dcWire = <<>>
    /\ dcAns = <<>>
    /\ dcFault = "none"
    /\ dcRet = [kind |-> "none"]

dcInit ==
    /\ docs \in DocumentPages
    /\ dcOp = "none"
    /\ dcCommand = ""
    /\ dcPc = "idle"
    /\ dcIdx = 0
    /\ dcRes = <<>>
    /\ dcBar = 0
    /\ dcWire = <<>>
    /\ dcAns = <<>>
    /\ dcFault = "none"
    /\ dcRet = [kind |-> "none"]

\* Documents::update is called with a command.
DcCallUpdate ==
    \E command \in Commands :
        /\ dcPc = "idle"
        /\ dcPc' = "loop"
        /\ dcOp' = "update"
        /\ dcCommand' = command
        /\ dcIdx' = 1
        /\ dcRes' = <<>>
        /\ dcBar' = 0
        /\ UNCHANGED <<docs, dcWire, dcAns, dcFault, dcRet>>
        /\ UNCHANGED dcFrame

\* Documents::delete is called.
DcCallDelete ==
    /\ dcPc = "idle"
    /\ dcPc' = "loop"
    /\ dcOp' = "delete"
    /\ dcIdx' = 1
    /\ dcRes' = <<>>
    /\ dcBar' = 0
    /\ UNCHANGED <<docs, dcCommand, dcWire, dcAns, dcFault, dcRet>>
    /\ UNCHANGED dcFrame

\* Document::update or Document::delete hands its request to send().
DcSend ==
    /\ dcPc = "loop"
    /\ dcIdx <= Len(DcDocs)
    /\ dcPc' = "sent"
    /\ dcWire' = Append(dcWire,
                        IF dcOp = "update"
                        THEN UpdateRequest(DcDocs[dcIdx], DocumentInfo, dcCommand)
                        ELSE DeleteRequest(DcDocs[dcIdx], DocumentInfo))
    /\ UNCHANGED <<docs, dcOp, dcCommand, dcIdx, dcRes, dcBar, dcAns, dcFault, dcRet>>
    /\ UNCHANGED dcFrame

\* The await completes and the document's call returns: an Ok value is
\* pushed on res and the bar advances, an error returns from the batch.
DcReceive ==
    \E outcome \in DcOutcomes :
        LET result == DocResult(DcDocs[dcIdx], outcome)
        IN  /\ dcPc = "sent"
            /\ dcAns' = IF outcome.kind = "response"
                        THEN Append(dcAns, outcome.status)
                        ELSE dcAns
            /\ dcFault' = DcFaultOf(outcome)
            /\ IF result.kind = "Ok"
               THEN /\ dcRes' = DcPush(dcRes, result.value)
                    /\ dcBar' = dcBar + 1
                    /\ dcIdx' = dcIdx + 1
                    /\ dcPc' = "loop"
                    /\ dcRet' = dcRet
               ELSE /\ dcRes' = dcRes
                    /\ dcBar' = dcBar
                    /\ dcIdx' = dcIdx
                    /\ dcPc' = "done"
                    /\ dcRet' = result
            /\ UNCHANGED <<docs, dcOp, dcCommand, dcWire>>
            /\ UNCHANGED dcFrame

\* The loop is over, or the source list is absent: Ok(res).
DcFinish ==
    /\ dcPc = "loop"
    /\ dcIdx > Len(DcDocs)
    /\ dcPc' = "done"
    /\ dcRet' = [kind |-> "Ok", value |-> dcRes]
    /\ UNCHANGED <<docs, dcOp, dcCommand, dcIdx, dcRes, dcBar, dcWire, dcAns, dcFault>>
    /\ UNCHANGED dcFrame

dcNext == DcCallUpdate \/ DcCallDelete \/ DcSend \/ DcReceive \/ DcFinish

\* The JSON value of an optional field: null when absent.
JsonOf(tag, option) == IF option = <<>> THEN <<"null">> ELSE <<tag, option[1]>>

\* The body Document::update is to send for a document under a command,
\* field by field: only "archive" touches IsArchived, only "draft" Status.
ExpectedPutBody(doc, command) ==
    [Id         |-> <<"number", doc.id>>,
     Name       |-> <<"string", doc.name>>,
     Status     |-> IF command = "draft" THEN <<"number", 10>> ELSE JsonOf("number", doc.status),
     Url        |-> JsonOf("string", doc.url),
     IsArchived |-> IF command = "archive" THEN <<"bool", TRUE>> ELSE JsonOf("bool", doc.is_archived)]

\* "h/Doc/<id>"
ExpectedEndpoint(doc) ==
    <<"h", "/", "D", "o", "c", "/">> \o (IF doc.id = 1 THEN <<"1">> ELSE <<"2">>)

\* Every PUT sent so far is the one the claim describes for its document.
C10_PutsAsCommanded ==
    dcOp = "update" =>
        /\ Len(dcWire) <= Len(DcDocs)
        /\ \A k \in 1..Len(dcWire) :
              /\ dcWire[k].method = "PUT"
              /\ dcWire[k].body = ExpectedPutBody(DcDocs[k], dcCommand)
              /\ dcWire[k].endpoint = ExpectedEndpoint(DcDocs[k])
              /\ \A i \in 1..Len(dcWire[k].endpoint) : dcWire[k].endpoint[i] # "?"
        /\ dcRet.kind = "Err" => (dcRet = HttpError /\ Len(dcWire) >= 1)

\* C10: Document::update sends a copy of the document changed only as the
\* command says ("archive" sets is_archived to true, "draft" sets status to
\* 10, any other command changes nothing and is no error), the PUT goes to
\* <base_url>/<document id> without the query suffix, and the document held
\* in the collection is left unchanged.
C10_UpdateSendsMutatedClone == []C10_PutsAsCommanded /\ [][docs' = docs]_vars

\* update("draft") has sent the PUT of a published, unarchived document and
\* the call has returned Ok.
C10_Witness ==
    /\ dcOp = "update"
    /\ dcCommand = "draft"
    /\ dcPc = "done"
    /\ dcRet.kind = "Ok"
    /\ Len(dcWire) = 2
    /\ DcDocs[2] = [id |-> 2, name |-> "doc", status |-> Some(30),
                    url |-> Some("u"), is_archived |-> Some(FALSE)]
    /\ dcWire[2].body.Status = <<"number", 10>>
    /\ dcWire[2].body.IsArchived = <<"bool", FALSE>>
    /\ dcWire[2].endpoint = <<"h", "/", "D", "o", "c", "/", "2">>

\* The batch has returned, every request sent was answered with a status
\* and every response body arrived whole.
DcAllAnswered ==
    /\ dcPc = "done"
    /\ dcFault \in {"none", "parse"}
    /\ Len(dcAns) = Len(dcWire)

\* The entry of document i under the status it was answered with.
DcEntryFor(i) ==
    [parsed      |-> IF dcAns[i] = 200 THEN "json" ELSE "text",
     response_to |-> DcDocs[i].id]

\* The list has one entry per document of the page, in page order.
DcOneEntryPerDocument ==
    /\ dcRet.kind = "Ok"
    /\ Len(dcRet.value) = Len(DcDocs)
    /\ Len(dcAns) = Len(DcDocs)
    /\ \A i \in 1..Len(DcDocs) : dcRet.value[i] = DcEntryFor(i)

DcFailedItems == {i \in 1..Len(dcAns) : dcAns[i] # 200}

MaxSized == 3

\* The file sizes of the documents, counted in quarters of a KB (42 is
\* 10.5 KB, 13 is 3.25 KB): f64 adds such values without rounding.
FileSizes == {None, Some(0), Some(13), Some(42)}

\* The pages whose sizes are totalled: of a document only file_size is read.
SizedPages ==
    {[source |-> None]} \cup
    {[source |-> Some(ds)] :
        ds \in UNION {[1..n -> [file_size : FileSizes]] : n \in 0..MaxSized}}

\* A loop in which every present size replaces the sum.
RECURSIVE TotalSizeLoopLastOnly(_, _, _)
TotalSizeLoopLastOnly(ds, i, size) ==
    IF i > Len(ds)
    THEN size
    ELSE TotalSizeLoopLastOnly(ds, i + 1,
                               IF IsSome(ds[i].file_size)
                               THEN Unwrap(ds[i].file_size)
                               ELSE size)

\* for doc in docs { if let Some(value) = doc.file_size() { size += value } }
RECURSIVE TotalSizeLoop(_, _, _)
TotalSizeLoop(ds, i, size) ==
    IF i > Len(ds)
    THEN size
    ELSE TotalSizeLoop(ds, i + 1,
                       IF IsSome(ds[i].file_size)
                       THEN size + Unwrap(ds[i].file_size)
                       ELSE size)

\* Documents::total_size: 0 when the source list is absent.
TotalSize(page) ==
    IF IsSome(page.source) THEN TotalSizeLoop(Unwrap(page.source), 1, 0) ELSE 0

tsIdle ==
    /\ tsDocs = [source |-> None]
    /\ tsRet = [kind |-> "none"]

tsInit ==
    /\ tsDocs \in SizedPages
    /\ tsRet = [kind |-> "none"]

\* total_size is called on the page.
TsTotalSize ==
    /\ tsRet' = [kind |-> "f64", value |-> TotalSize(tsDocs)]
    /\ UNCHANGED tsDocs
    /\ UNCHANGED tsFrame

tsNext == TsTotalSize

\* The sizes of the page, none when the source list is absent.
TsSizes ==
    IF tsDocs.source = <<>>
    THEN <<>>
    ELSE [i \in 1..Len(tsDocs.source[1]) |-> tsDocs.source[1][i].file_size]

\* The sum of the present sizes of a list, taken from its end.
RECURSIVE SumOfPresent(_)
SumOfPresent(sizes) ==
    IF sizes = <<>>
    THEN 0
    ELSE LET n == Len(sizes)
         IN  (IF sizes[n] = <<>> THEN 0 ELSE sizes[n][1]) +
             SumOfPresent(SubSeq(sizes, 1, n - 1))

IsPresent(size) == size # <<>>

\* C13: Documents::total_size equals the sum of file_size over the
\* documents of the page that have one; a document without a file_size
\* contributes zero (the total is that of the page without it), and an
\* absent or empty source list gives 0.
C13_TotalSizeSumsPresent ==
    tsRet.kind = "f64" =>
        /\ tsRet.value = SumOfPresent(TsSizes)
        /\ tsRet.value = SumOfPresent(SelectSeq(TsSizes, IsPresent))
        /\ TsSizes = <<>> => tsRet.value = 0

\* Sizes [10.5, None, 3.25] have been totalled to 13.75.
C13_Witness ==
    /\ TsSizes = <<Some(42), None, Some(13)>>
    /\ tsRet = [kind |-> "f64", value |-> 55]


(***************************************************************************)
(* file.rs: FileNames::not_in                                              *)
(***************************************************************************)
\* The number of file names the local index is drawn from.
MaxNames == 3

\* The names of the local files, and a name only the remote folder has.
NamePool == <<"a", "b", "c", "d", "e">>

LocalNames == {NamePool[i] : i \in 1..MaxNames}

RemoteNames == {NamePool[i] : i \in 1..(MaxNames + 1)}

\* Two directories a local file may lie in, and the url of a remote file.
LocalPaths == {"x/", "y/"}

RemotePaths == {"http"}

\* A HashMap<String, PathBuf> is a function from its keys to their paths.
HashMaps(keys, paths) == UNION {[ks -> paths] : ks \in SUBSET keys}

\* HashMap::insert: the key is added or its value replaced.
Insert(map, key, value) ==
    [k \in DOMAIN map \cup {key} |-> IF k = key THEN value ELSE map[k]]

\* A loop without the test on items: every local entry is inserted.
RECURSIVE NotInLoopNoTest(_, _, _, _)
NotInLoopNoTest(names, todo, items, diff) ==
    IF todo = {}
    THEN diff
    ELSE LET name == CHOOSE n \in todo : TRUE
         IN  NotInLoopNoTest(names, todo \ {name}, items,
                             Insert(diff, name, names[name]))

\* for name in names { if !items.contains(&name) { diff.insert(..) } }: the
\* result is a HashMap, so the order of the visits does not show.
RECURSIVE NotInLoop(_, _, _, _)
NotInLoop(names, todo, items, diff) ==
    IF todo = {}
    THEN diff
    ELSE LET name == CHOOSE n \in todo : TRUE
         IN  NotInLoop(names, todo \ {name}, items,
                       IF name \notin items
                       THEN Insert(diff, name, names[name])
                       ELSE diff)

\* FileNames::not_in(&self, links)
NotIn(names, links) == NotInLoop(names, DOMAIN names, DOMAIN links, <<>>)

niIdle ==
    /\ niLocal = <<>>
    /\ niLinks = <<>>
    /\ niRet = [kind |-> "none"]

niInit ==
    /\ niLocal \in HashMaps(LocalNames, LocalPaths)
    /\ niLinks \in HashMaps(RemoteNames, RemotePaths)
    /\ niRet = [kind |-> "none"]

\* not_in is called on the local index with the links.
NiNotIn ==
    /\ niRet' = [kind |-> "FileNames", names |-> NotIn(niLocal, niLinks)]
    /\ UNCHANGED <<niLocal, niLinks>>
    /\ UNCHANGED niFrame

niNext == NiNotIn

\* The result holds exactly the local names that are no key of links, each
\* with the path the local index has for it.
C14_DifferenceOnNames ==
    niRet.kind = "FileNames" =>
        /\ DOMAIN niRet.names = {n \in DOMAIN niLocal : n \notin DOMAIN niLinks}
        /\ DOMAIN niRet.names \cap DOMAIN niLinks = {}
        /\ \A n \in DOMAIN niRet.names : niRet.names[n] = niLocal[n]

\* C14: FileNames::not_in(links) is the set difference on names: the result
\* holds exactly the entries of the local index whose name is not a key of
\* links, each with its original path, holds no name that is a key of
\* links, and the local index and links are left unchanged.
C14_NotInIsDifference ==
    []C14_DifferenceOnNames /\ [][niLocal' = niLocal /\ niLinks' = niLinks]_vars

\* Local {a, b, c} and remote {b} have given exactly {a, c}, with the paths
\* of a and c.
C14_Witness ==
    /\ DOMAIN niLocal = {"a", "b", "c"}
    /\ DOMAIN niLinks = {"b"}
    /\ niLocal["a"] = "x/" /\ niLocal["c"] = "y/"
    /\ niRet.kind = "FileNames"
    /\ DOMAIN niRet.names = {"a", "c"}
    /\ niRet.names["a"] = "x/" /\ niRet.names["c"] = "y/"


(***************************************************************************)
(* report.rs: ReportItem::new and TryFrom<FolderSizes> for ReportItems     *)
(***************************************************************************)
\* The largest number of samples drawn.
MaxSamples == 3

\* The folders and the sizes in KB of the samples.  A negative size is one
\* that Byte::from_unit refuses.
SampleFolders == {"X", "Y"}

SampleSizes == {-1, 0, 50, 100}

FolderSizeSet == [folder : SampleFolders, size : SampleSizes]

FolderSizesSet ==
    {[records |-> rs] : rs \in UNION {[1..n -> FolderSizeSet] : n \in 0..MaxSamples}}

\* The f64 quotient a / b of two sizes, kept as its operands: it is 1.0
\* when they are equal and not 0, and NaN when both are 0.
F64Div(a, b) == [num |-> a, den |-> b]

\* byte_unit::Byte::from_unit(size, ByteUnit::KB): the count of bytes, an
\* error for a negative size.
ByteFromKB(size) ==
    IF size < 0
    THEN [kind |-> "Err", error |-> "ByteError"]
    ELSE [kind |-> "Ok", bytes |-> size * 1000]

\* ReportItem::new: the `?` returns the error of the conversion.
ReportItemNew(folder, size, total_size) ==
    LET sz == ByteFromKB(size)
    IN  IF sz.kind = "Err"
        THEN sz
        ELSE [kind |-> "Ok",
              item |-> [folder  |-> folder,
                        size    |-> [bytes |-> sz.bytes],
                        percent |-> F64Div(size, total_size)]]

\* The sizes of the records, in the records' order.
SizesOf(records) == [i \in 1..Len(records) |-> records[i].size]

\* A maximum taken without the sort: the size of the last sample.
MaxSizeOfLast(sizes) == sizes[Len(sizes)]

\* sizes.sort_by(..); sizes[sizes.len() - 1]: the last of the sorted sizes.
MaxSize(sizes) == SortSeq(sizes, LAMBDA a, b : a < b)[Len(sizes)]

\* The map over the records: every item is built and unwrapped, and an
\* unwrap of an error panics.
RECURSIVE ReportLoop(_, _, _, _)
ReportLoop(samples, i, max_size, records) ==
    IF i > Len(samples)
    THEN [kind |-> "Ok", records |-> records]
    ELSE LET item == ReportItemNew(samples[i].folder, samples[i].size, max_size)
         IN  IF item.kind = "Err"
             THEN [kind |-> "panic", message |-> "unwrap on Err"]
             ELSE ReportLoop(samples, i + 1, max_size, Append(records, item.item))

\* ReportItems::try_from: indexing the sorted sizes of no sample panics.
ReportTryFrom(folder_sizes) ==
    LET sizes == SizesOf(folder_sizes.records)
    IN  IF Len(sizes) = 0
        THEN [kind |-> "panic", message |-> "index out of bounds"]
        ELSE ReportLoop(folder_sizes.records, 1, MaxSize(sizes), <<>>)

rpIdle ==
    /\ rpSizes = [records |-> <<>>]
    /\ rpRet = [kind |-> "none"]

rpInit ==
    /\ rpSizes \in FolderSizesSet
    /\ rpRet = [kind |-> "none"]

\* ReportItems::try_from is called on the samples.
RpTryFrom ==
    /\ rpRet' = ReportTryFrom(rpSizes)
    /\ UNCHANGED rpSizes
    /\ UNCHANGED rpFrame

rpNext == RpTryFrom

\* The samples, and the largest size among them.
RpSamples == rpSizes.records

RpLargest ==
    CHOOSE m \in {RpSamples[i].size : i \in 1..Len(RpSamples)} :
        \A i \in 1..Len(RpSamples) : RpSamples[i].size <= m

\* The report has one row per sample, in the samples' order and with the
\* samples' names.
RpRowPerSample ==
    /\ Len(rpRet.records) = Len(RpSamples)
    /\ \A i \in 1..Len(RpSamples) : rpRet.records[i].folder = RpSamples[i].folder

\* The quotient p is the number a / b, b not 0.
IsQuotient(p, a, b) == p.den # 0 /\ p.num * b = a * p.den

IsNaN(p) == p.den = 0 /\ p.num = 0

\* C15 as stated: every row's percent is its sample's size divided by the
\* largest size, and 1.0 for a sample of the largest size.
C15_PercentOfMaxAlways ==
    rpRet.kind = "Ok" =>
        /\ RpRowPerSample
        /\ \A i \in 1..Len(RpSamples) :
              /\ rpRet.records[i].percent.num = RpSamples[i].size
              /\ rpRet.records[i].percent.den = RpLargest
              /\ RpSamples[i].size = RpLargest =>
                    IsQuotient(rpRet.records[i].percent, 1, 1)

\* C15, amended: ReportItems::try_from gives every sample a percent equal
\* to its size divided by the largest size of the set; when the largest
\* size is positive the sample of the largest size has percent 1.0, and
\* when it is 0 every percent is 0/0, a NaN.  The report has one row per
\* sample, in the samples' order and with the samples' names.
C15_PercentOfPositiveMax ==
    rpRet.kind = "Ok" =>
        /\ RpRowPerSample
        /\ \A i \in 1..Len(RpSamples) :
              /\ rpRet.records[i].percent.num = RpSamples[i].size
              /\ rpRet.records[i].percent.den = RpLargest
              /\ RpLargest > 0 =>
                    /\ IsQuotient(rpRet.records[i].percent, RpSamples[i].size, RpLargest)
                    /\ RpSamples[i].size = RpLargest =>
                          IsQuotient(rpRet.records[i].percent, 1, 1)
              /\ RpLargest = 0 => IsNaN(rpRet.records[i].percent)

\* Samples [(X, 50), (Y, 100)] have given X 0.5 and Y 1.0.
C15_Witness ==
    /\ RpSamples = <<[folder |-> "X", size |-> 50], [folder |-> "Y", size |-> 100]>>
    /\ rpRet.kind = "Ok"
    /\ Len(rpRet.records) = 2
    /\ rpRet.records[1].folder = "X" /\ IsQuotient(rpRet.records[1].percent, 1, 2)
    /\ rpRet.records[2].folder = "Y" /\ IsQuotient(rpRet.records[2].percent, 1, 1)

\* C16: ReportItems::try_from returns an error result, and no report, when
\* the sample set is empty and when the unit conversion of any sample
\* fails.
C16_FailsWithErrorResult ==
    (/\ rpRet.kind # "none"
     /\ \/ Len(RpSamples) = 0
        \/ \E i \in 1..Len(RpSamples) : RpSamples[i].size < 0) =>
        rpRet.kind = "Err"


(***************************************************************************)
(* document.rs: DocInfo::new and DocInfo::query; main.rs: the shared       *)
(* DocQuery `args` from which the commands build one DocInfo per target    *)
(***************************************************************************)
\* The most DocInfos a command builds here.
MaxInfos == 2

\* The url of the folder endpoint (the FOLDER variable of main).
FolderUrl == <<"h", "/", "F">>

FilterFolder8 == <<"F", "o", "l", "d", "e", "r", "I", "d", " ", "e", "q", " ", "8">>

\* format!("FolderId eq {}", id) for the folders of the command.
FolderFilters == {FilterFolder7, FilterFolder8}

AllPages == <<"a", "l", "l", "p", "a", "g", "e", "s">>

diIdle ==
    /\ diArgs = DocQueryDefault
    /\ diInfos = <<>>
    /\ diAt = <<>>
    /\ diRet = [kind |-> "none"]

\* let mut args = DocQuery::new()
diInit ==
    /\ diArgs = DocQueryDefault
    /\ diInfos = <<>>
    /\ diAt = <<>>
    /\ diRet = [kind |-> "none"]

\* args.inlinecount("allpages")
DiInlinecount ==
    /\ diArgs' = SetQueryField(diArgs, "inlinecount", AllPages)
    /\ UNCHANGED <<diInfos, diAt, diRet>>
    /\ UNCHANGED diFrame

\* args.filter(&format!("FolderId eq {}", id))
DiFilter ==
    \E value \in FolderFilters :
        /\ diArgs' = SetQueryField(diArgs, "filter", value)
        /\ UNCHANGED <<diInfos, diAt, diRet>>
        /\ UNCHANGED diFrame

\* DocInfo::new(&doc_header, &args, &url)
DiNew ==
    \E url \in {FolderUrl, DocumentUrl} :
        /\ Len(diInfos) < MaxInfos
        /\ diInfos' = Append(diInfos, DocInfoNew(DocumentHeadersDefault, diArgs, url))
        /\ diAt' = Append(diAt, [args |-> diArgs, url |-> url])
        /\ UNCHANGED <<diArgs, diRet>>
        /\ UNCHANGED diFrame

\* query() is called on one of the DocInfos built.
DiQuery ==
    \E i \in 1..Len(diInfos) :
        /\ diRet' = [kind |-> "String", of |-> i, value |-> InfoQuery(diInfos[i])]
        /\ UNCHANGED <<diArgs, diInfos, diAt>>
        /\ UNCHANGED diFrame

diNext == DiInlinecount \/ DiFilter \/ DiNew \/ DiQuery

\* The suffix of a DocQuery in which only filter and inlinecount may be
\* set, written out.
DiSuffix(q) ==
    LET filter == IF q["filter"] = <<>>
                  THEN <<>>
                  ELSE <<"%", "2", "4", "f", "i", "l", "t", "e", "r", "=">> \o q["filter"][1]
        count  == IF q["inlinecount"] = <<>>
                  THEN <<>>
                  ELSE <<"%", "2", "4", "i", "n", "l", "i", "n", "e", "c", "o", "u", "n", "t", "=">>
                           \o q["inlinecount"][1]
    IN  <<"?">> \o filter
              \o (IF filter # <<>> /\ count # <<>> THEN <<"&">> ELSE <<>>)
              \o count

\* Every DocInfo carries the parameters the shared DocQuery had when it was
\* built, and its query() returns its url followed by their suffix.
C18_InfoCarriesArgsAtNew ==
    /\ Len(diInfos) = Len(diAt)
    /\ \A i \in 1..Len(diInfos) :
          /\ diInfos[i].query = diAt[i].args
          /\ diInfos[i].url = diAt[i].url
    /\ diRet.kind = "String" =>
          diRet.value = diAt[diRet.of].url \o DiSuffix(diAt[diRet.of].args)

\* No call changes a DocInfo already built.
C18_BuiltInfosKept ==
    \A i \in 1..Len(diInfos) : i <= Len(diInfos') /\ diInfos'[i] = diInfos[i]

\* C18: DocInfo::query returns the base url followed by DocQuery::query of
\* the parameters as they were when DocInfo::new was called: a later change
\* of the caller's shared DocQuery does not change a DocInfo already built,
\* and a DocInfo built after the change carries the new filter and every
\* other parameter set before.
C18_InfoIsSnapshot ==
    []C18_InfoCarriesArgsAtNew /\ [][C18_BuiltInfosKept]_vars

\* A DocInfo built with inlinecount and the filter of folder 7, the filter
\* then set for folder 8 and a second DocInfo built: the query of the first
\* still names folder 7, the second carries folder 8 and inlinecount.
C18_Witness ==
    /\ Len(diInfos) = 2
    /\ diArgs["filter"] = Some(FilterFolder8)
    /\ diInfos[1].query["filter"] = Some(FilterFolder7)
    /\ diInfos[2].query["filter"] = Some(FilterFolder8)
    /\ diInfos[2].query["inlinecount"] = Some(AllPages)
    /\ diRet.kind = "String"
    /\ diRet.of = 1
    /\ diRet.value = DocumentUrl \o <<"?", "%", "2", "4", "f", "i", "l", "t", "e", "r", "=">>
                       \o FilterFolder7
                       \o <<"&", "%", "2", "4", "i", "n", "l", "i", "n", "e", "c", "o", "u", "n", "t", "=">>
                       \o AllPages


(***************************************************************************)
(* authorize.rs: AuthorizeInfo::authorize, AuthResponse, AuthorizedUser;   *)
(* document.rs, file.rs: the headers of the folder and document requests   *)
(***************************************************************************)
\* The most folder and document requests followed after the authorization.
MaxRequests == 2

\* The credentials main builds from the environment.
Credentials ==
    [api_key : {"k1", "k2"}, partition : {"p1", "p2"},
     name : {"n"}, password : {"pw"}, host : {"h"}]

\* AuthorizeHeaders::default()
AuthorizeHeadersDefault == [api_key |-> "apikey", partition |-> "partition"]

\* DocumentHeaders::new with names of the caller's choice.
DocumentHeadersCustom ==
    [api_key |-> "x-key", partition |-> "x-part", user_api_key |-> "x-user"]

\* The JSON bodies of a 200 answer to the authentication: the session id is
\* the value of APIKey.
AuthBodies ==
    [AdditionalInfo : {"i"}, Success : {TRUE}, APIKey : {"s1", "s2"},
     UserId : {7}, Message : {"m"}]

\* res.json::<AuthResponse>(): PascalCase keys, api_key renamed to APIKey.
AuthResponseFromJson(json) ==
    [additional_info |-> json.AdditionalInfo,
     success         |-> json.Success,
     api_key         |-> json.APIKey,
     user_id         |-> json.UserId,
     message         |-> json.Message]

\* An AuthorizedUser whose session id is the credential's api key.
AuthorizedUserNewOwnKey(user, auth) ==
    [api_key      |-> user.api_key,
     partition    |-> user.partition,
     user_api_key |-> user.api_key]

\* AuthorizedUser::new
AuthorizedUserNew(user, auth) ==
    [api_key      |-> user.api_key,
     partition    |-> user.partition,
     user_api_key |-> auth.api_key]

ContentTypeJson == <<"content-type", "application/json">>

AcceptJson == <<"accept", "application/json">>

\* The POST of authorize: the two standard headers, the api key and the
\* partition of the User, and the body with Username and Password.
AuthorizeRequest(user, headers, url) ==
    [method  |-> "POST",
     target  |-> url,
     headers |-> <<ContentTypeJson, AcceptJson,
                   <<headers.api_key, user.api_key>>,
                   <<headers.partition, user.partition>>>>,
     body    |-> [Username |-> <<user.name, "@", user.host>>,
                  Password |-> user.password]]

\* The three .header(info.headers().<name>(), user.<name>()) calls that
\* every folder and document request makes.
SessionHeaders(info, user) ==
    <<<<info.headers.api_key, user.api_key>>,
      <<info.headers.partition, user.partition>>,
      <<info.headers.user_api_key, user.user_api_key>>>>

\* The calls that send a request for an AuthorizedUser.
SessionOps == {"folders_query", "documents_query", "upload", "update", "delete"}

\* The request of each call: the queries GET info.query() and send Accept
\* only; upload POSTs to info.url, update PUTs and delete DELETEs
\* <info.url>/<id>.
SessionRequest(op, info, user) ==
    CASE op \in {"folders_query", "documents_query"} ->
            [method |-> "GET", target |-> InfoQuery(info),
             headers |-> <<AcceptJson>> \o SessionHeaders(info, user)]
      [] op = "upload" ->
            [method |-> "POST", target |-> info.url,
             headers |-> <<ContentTypeJson, AcceptJson>> \o SessionHeaders(info, user)]
      [] op = "update" ->
            [method |-> "PUT", target |-> info.url \o <<"/", "1">>,
             headers |-> <<ContentTypeJson, AcceptJson>> \o SessionHeaders(info, user)]
      [] op = "delete" ->
            [method |-> "DELETE", target |-> info.url \o <<"/", "1">>,
             headers |-> <<ContentTypeJson, AcceptJson>> \o SessionHeaders(info, user)]

\* The DocInfos of the requests: default or custom header names.
SessionInfos ==
    {DocInfoNew(h, DocQueryDefault, DocumentUrl) :
        h \in {DocumentHeadersDefault, DocumentHeadersCustom}}

AuthenticateUrl == <<"h", "/", "A">>

seIdle ==
    /\ seUser = [api_key |-> "k1", partition |-> "p1", name |-> "n",
                 password |-> "pw", host |-> "h"]
    /\ sePc = "start"
    /\ seBody = None
    /\ seAuth = None
    /\ seCalls = <<>>
    /\ seWire = <<>>

seInit ==
    /\ seUser \in Credentials
    /\ sePc = "start"
    /\ seBody = None
    /\ seAuth = None
    /\ seCalls = <<>>
    /\ seWire = <<>>

\* auth_info.authorize(&url): the POST is handed to send().
SeAuthorize ==
    /\ sePc = "start"
    /\ sePc' = "sent"
    /\ seWire' = Append(seWire, AuthorizeRequest(seUser, AuthorizeHeadersDefault, AuthenticateUrl))
    /\ seCalls' = Append(seCalls, [op |-> "authorize"])
    /\ UNCHANGED <<seUser, seBody, seAuth>>
    /\ UNCHANGED seFrame

\* 200 with a body that deserializes: AuthorizedUser::new(&user, &auth_res).
SeAuthorized ==
    \E json \in AuthBodies :
        /\ sePc = "sent"
        /\ sePc' = "authorized"
        /\ seBody' = Some(json)
        /\ seAuth' = Some(AuthorizedUserNew(seUser, AuthResponseFromJson(json)))
        /\ UNCHANGED <<seUser, seCalls, seWire>>
        /\ UNCHANGED seFrame

\* Any other outcome: the `?` of main returns the error.
SeRefused ==
    /\ sePc = "sent"
    /\ sePc' = "failed"
    /\ UNCHANGED <<seUser, seBody, seAuth, seCalls, seWire>>
    /\ UNCHANGED seFrame

\* A folder or document call sends its request for the AuthorizedUser.
SeRequest ==
    \E op \in SessionOps :
        \E info \in SessionInfos :
            /\ sePc = "authorized"
            /\ Len(seWire) <= MaxRequests
            /\ seWire' = Append(seWire, SessionRequest(op, info, Unwrap(seAuth)))
            /\ seCalls' = Append(seCalls, [op |-> op, names |-> info.headers])
            /\ UNCHANGED <<seUser, sePc, seBody, seAuth>>
            /\ UNCHANGED seFrame

seNext == SeAuthorize \/ SeAuthorized \/ SeRefused \/ SeRequest

\* The headers of a request other than Content-Type and Accept.
IsCustomHeader(h) == h[1] \notin {"content-type", "accept"}

CustomHeadersOf(request) == SelectSeq(request.headers, IsCustomHeader)

\* The method each call is to use.
MethodOf(op) ==
    CASE op = "authorize" -> "POST"
      [] op = "upload"    -> "POST"
      [] op = "update"    -> "PUT"
      [] op = "delete"    -> "DELETE"
      [] OTHER            -> "GET"

\* C20: every folder and document request (GET, POST, PUT, DELETE) carries
\* three custom headers, named apikey, partition and userapikey by default,
\* whose values are the credential's api key, the credential's partition
\* and the session id of the APIKey field of the authentication response;
\* the session header never carries the credential's own api key; the
\* authentication request carries only the api-key and partition headers
\* with the credential's values, and the username <name>@<host>.
C20_SessionHeaders ==
    /\ Len(seWire) = Len(seCalls)
    /\ \A k \in 1..Len(seWire) :
          /\ seWire[k].method = MethodOf(seCalls[k].op)
          /\ IF seCalls[k].op = "authorize"
             THEN /\ CustomHeadersOf(seWire[k]) =
                        <<<<"apikey", seUser.api_key>>, <<"partition", seUser.partition>>>>
                  /\ seWire[k].body.Username = <<seUser.name, "@", seUser.host>>
             ELSE /\ seBody # <<>>
                  /\ LET custom == CustomHeadersOf(seWire[k])
                     IN  /\ Len(custom) = 3
                         /\ custom[1] = <<seCalls[k].names.api_key, seUser.api_key>>
                         /\ custom[2] = <<seCalls[k].names.partition, seUser.partition>>
                         /\ custom[3] = <<seCalls[k].names.user_api_key, seBody[1].APIKey>>
                         /\ custom[3][2] # seUser.api_key
                         /\ seCalls[k].names = DocumentHeadersDefault =>
                               /\ custom[1][1] = "apikey"
                               /\ custom[2][1] = "partition"
                               /\ custom[3][1] = "userapikey"

\* After an authorization answered with session id s2 for the credential
\* (k1, p2), a PUT with the default header names and a GET with custom
\* ones have been sent.
C20_Witness ==
    /\ sePc = "authorized"
    /\ seUser.api_key = "k1" /\ seUser.partition = "p2"
    /\ seBody = Some([AdditionalInfo |-> "i", Success |-> TRUE, APIKey |-> "s2",
                      UserId |-> 7, Message |-> "m"])
    /\ Len(seWire) = 3
    /\ seWire[2].method = "PUT"
    /\ seWire[2].headers = <<ContentTypeJson, AcceptJson, <<"apikey", "k1">>,
                             <<"partition", "p2">>, <<"userapikey", "s2">>>>
    /\ seWire[3].method = "GET"
    /\ seWire[3].headers = <<AcceptJson, <<"x-key", "k1">>, <<"x-part", "p2">>,
                             <<"x-user", "s2">>>>


(***************************************************************************)
(* document.rs: From<&Documents> for DocumentLinks                         *)
(***************************************************************************)
\* The longest page of documents the links are built from.
MaxLinked == 3

\* Of a document the conversion reads the name and the url.
LinkedDocuments == [name : {"a", "b"}, url : {None, Some("u1"), Some("u2")}]

LinkedPages ==
    {[source |-> None]} \cup
    {[source |-> Some(ds)] : ds \in UNION {[1..n -> LinkedDocuments] : n \in 0..MaxLinked}}

\* A loop that keeps the url a name already has.
RECURSIVE LinksLoopKeepFirst(_, _, _)
LinksLoopKeepFirst(ds, i, links) ==
    IF i > Len(ds)
    THEN links
    ELSE LinksLoopKeepFirst(ds, i + 1,
                            IF IsSome(ds[i].url) /\ ds[i].name \notin DOMAIN links
                            THEN Insert(links, ds[i].name, Unwrap(ds[i].url))
                            ELSE links)

\* for doc in documents { if let Some(url) = doc.url_ref() { links.insert(..) } }
RECURSIVE LinksLoop(_, _, _)
LinksLoop(ds, i, links) ==
    IF i > Len(ds)
    THEN links
    ELSE LinksLoop(ds, i + 1,
                   IF IsSome(ds[i].url)
                   THEN Insert(links, ds[i].name, Unwrap(ds[i].url))
                   ELSE links)

\* DocumentLinks::from(&docs): the empty map when the source list is absent.
LinksFrom(page) ==
    IF IsSome(page.source) THEN LinksLoop(Unwrap(page.source), 1, <<>>) ELSE <<>>

lkIdle ==
    /\ lkDocs = [source |-> None]
    /\ lkRet = [kind |-> "none"]

lkInit ==
    /\ lkDocs \in LinkedPages
    /\ lkRet = [kind |-> "none"]

\* DocumentLinks::from is called on the page.
LkFrom ==
    /\ lkRet' = [kind |-> "DocumentLinks", links |-> LinksFrom(lkDocs)]
    /\ UNCHANGED lkDocs
    /\ UNCHANGED lkFrame

lkNext == LkFrom

\* The documents of the page, and the positions of those of a name that
\* have a url.
LkDocuments == IF lkDocs.source = <<>> THEN <<>> ELSE lkDocs.source[1]

LkWithUrl(n) ==
    {i \in 1..Len(LkDocuments) : LkDocuments[i].name = n /\ LkDocuments[i].url # <<>>}

\* C29: the DocumentLinks built from a page has an entry exactly for the
\* names of the documents that have a url; a document without url adds no
\* entry, so a name none of whose documents has a url is no key; the entry
\* of a name holds the url of the last document in page order that has that
\* name and a url; an absent source list gives the empty map.
C29_LinksOfDocumentsWithUrl ==
    lkRet.kind = "DocumentLinks" =>
        /\ DOMAIN lkRet.links = {LkDocuments[i].name : i \in
                                    {j \in 1..Len(LkDocuments) : LkDocuments[j].url # <<>>}}
        /\ \A n \in DOMAIN lkRet.links :
              \E i \in LkWithUrl(n) :
                  /\ \A j \in LkWithUrl(n) : j <= i
                  /\ lkRet.links[n] = LkDocuments[i].url[1]
        /\ lkDocs.source = <<>> => DOMAIN lkRet.links = {}

\* A page of "a" with url u1, "b" without url and "a" with url u2 has given
\* the single entry a -> u2.
C29_Witness ==
    /\ Len(LkDocuments) = 3
    /\ LkDocuments[1] = [name |-> "a", url |-> Some("u1")]
    /\ LkDocuments[2] = [name |-> "b", url |-> None]
    /\ LkDocuments[3] = [name |-> "a", url |-> Some("u2")]
    /\ lkRet.kind = "DocumentLinks"
    /\ DOMAIN lkRet.links = {"a"}
    /\ lkRet.links["a"] = "u2"

(***************************************************************************)
(* main.rs: one invocation of the command line program                     *)
(***************************************************************************)
\* The longest page of documents a query of the invocation answers with.
MaxCliDocs == 2

\* The variables main reads from the environment, in the order it reads them.
CredentialVars == {"API_KEY", "PARTITION", "USERNAME", "PASSWORD", "HOST"}

EnvVars == CredentialVars \cup {"AUTHENTICATE", "FOLDER", "DOCUMENT"}

\* The environments drawn: complete, or with one variable missing.
CliEnvs == {EnvVars} \cup {EnvVars \ {v} : v \in EnvVars}

\* The commands of the match on cli.command; "other" takes the `_` arm.
CliCommands ==
    {"get_links", "sync_folder", "report", "folder_count",
     "delete_folder_content", "inspect_folder", "other"}

CliParams == {"A", FeeInLieu}

\* cli.source: absent, a directory that cannot be read, or a directory
\* whose file stems from_path collects with their paths.
CliSources ==
    {[kind |-> "none"], [kind |-> "unreadable"]} \cup
    {[kind |-> "dir", names |-> [n \in ns |-> "x/"]] : ns \in SUBSET {"a", "c"}}

\* The folder pages the vendor answers with.
CliFolderPages ==
    {[source |-> None],
     [source |-> Some(<<[id |-> Some(1), name |-> "A", is_archived |-> Some(FALSE)]>>)],
     [source |-> Some(<<[id |-> Some(2), name |-> "A", is_archived |-> Some(FALSE)],
                        [id |-> Some(1), name |-> FeeInLieu, is_archived |-> Some(FALSE)]>>)],
     [source |-> Some(<<[id |-> None, name |-> "A", is_archived |-> Some(FALSE)],
                        [id |-> Some(2), name |-> "GIS", is_archived |-> Some(FALSE)]>>)]}

\* The document pages the vendor answers with.
CliDocuments ==
    {[id |-> 1, name |-> "a", url |-> Some("u")],
     [id |-> 2, name |-> "a", url |-> None],
     [id |-> 2, name |-> "b", url |-> Some("u")],
     [id |-> 1, name |-> "b", url |-> None]}

\* What `send().await` may yield for the queries of main and for authorize.
CliOutcomes ==
    {[kind |-> "error"]} \cup
    [kind : {"response"}, status : {200, 401}, json : BOOLEAN, body : {"body1"}]

CliDocumentPages ==
    {[source |-> None]} \cup
    {[source |-> Some(ds)] : ds \in UNION {[1..n -> CliDocuments] : n \in 0..MaxCliDocs}}

\* The folder names each command looks up, in the order of its code.
GetLinksFolders ==
    <<FeeInLieu, "Unrecorded Parcels", "Service and Annexation",
      "Deferred Development Agreements", "Advance Finance Districts">>

ReportFolders ==
    <<"GIS", "Address Notifications", "Images", "Advance Finance Districts",
      "Deferred Development Agreements", FeeInLieu, "Service and Annexation",
      "Unrecorded Parcels">>

Lookups(command, param) ==
    IF command = "get_links"
    THEN GetLinksFolders
    ELSE IF command = "report" THEN ReportFolders ELSE <<param>>

\* The requests of the invocation as they go on the wire.
AuthenticateRequest == [method |-> "POST", kind |-> "authenticate", of |-> <<>>]

FoldersRequest == [method |-> "GET", kind |-> "folders", of |-> <<>>]

\* A document query; filter is the folder id of args.filter, if one is set.
DocumentsRequest(filter) == [method |-> "GET", kind |-> "documents", of |-> filter]

\* A batch that begins with the deletes.
FirstBatchDelete(command) ==
    IF command = "sync_folder" THEN "upload" ELSE "delete"

\* The batch a command begins with once its page of documents is there.
FirstBatch(command) ==
    IF command = "sync_folder" THEN "upload" ELSE "update"

\* The batch that follows one that returned Ok: docs.delete after docs.update.
NextBatch(op) == IF op = "update" THEN "delete" ELSE "none"

\* Batches that take the documents of the page last to first.
BatchItemsReversed(op, names, page) ==
    IF op = "upload"
    THEN IterationOrders(DOMAIN NotIn(names, LinksFrom(page)))
    ELSE {IF IsSome(page.source)
          THEN [i \in 1..Len(Unwrap(page.source)) |->
                    Unwrap(page.source)[Len(Unwrap(page.source)) + 1 - i]]
          ELSE <<>>}

\* The items a batch runs over: the stems of diff in one of the orders its
\* map may iterate in, or the documents of the page in their order.
BatchItems(op, names, page) ==
    IF op = "upload"
    THEN IterationOrders(DOMAIN NotIn(names, LinksFrom(page)))
    ELSE {IF IsSome(page.source) THEN Unwrap(page.source) ELSE <<>>}

\* The request of item i of the batch.
ItemRequest(op, item, id) ==
    IF op = "upload"
    THEN [method |-> "POST", kind |-> "upload", of |-> <<UploadBody(item, id)>>]
    ELSE IF op = "update"
         THEN [method |-> "PUT", kind |-> "update", of |-> <<item.id, "draft">>]
         ELSE [method |-> "DELETE", kind |-> "delete", of |-> <<item.id>>]

\* What the batch can answer with for an item: upload and the document
\* operators draw from the same statuses here.
ItemOutcomes ==
    {[kind |-> "error"]} \cup
    [kind : {"response"}, status : DcStatuses, body : {"json", "text", "broken"}]

\* An upload that goes on whatever the answer to the item.
ItemGoesOnUpload(op, item, outcome) ==
    IF op = "upload"
    THEN TRUE
    ELSE DocResult(item, outcome).kind = "Ok"

\* TRUE when the answer to the item lets the loop of the batch go on.
ItemGoesOn(op, item, outcome) ==
    IF op = "upload"
    THEN UpItem(item, outcome).kind # "fail"
    ELSE DocResult(item, outcome).kind = "Ok"

\* The results of the batch after the answer to an item that lets it go
\* on: upload pushes the parsed body of a 200 or 201 and nothing otherwise,
\* update and delete push what the call of the document returned.
ItemPush(op, res, item, outcome) ==
    IF op = "upload"
    THEN IF UpItem(item, outcome).kind = "push"
         THEN Append(res, UpItem(item, outcome).entry)
         ELSE res
    ELSE DcPush(res, DocResult(item, outcome).value)

\* A bar that moves only for the answers with a success status.
BarAfterSuccessOnly(op, bar, item, outcome) ==
    IF outcome.kind = "response" /\ outcome.status \in {200, 201}
    THEN bar + 1
    ELSE bar

\* bar.inc(1): upload moves the bar when send().await has given a response,
\* before it looks at the status; update and delete move it when the call
\* of the document has returned Ok and its value is pushed.
BarAfter(op, bar, item, outcome) ==
    IF op = "upload"
    THEN IF outcome.kind = "response" THEN bar + 1 ELSE bar
    ELSE IF DocResult(item, outcome).kind = "Ok" THEN bar + 1 ELSE bar

\* History: TRUE when the answer is no response at all, a body that cannot
\* be read, or a body under a success status that is no JSON.
ItemFault(op, outcome) ==
    \/ outcome.kind = "error"
    \/ outcome.kind = "response" /\ outcome.body = "broken"
    \/ /\ outcome.kind = "response"
       /\ outcome.body = "text"
       /\ outcome.status \in (IF op = "upload" THEN {200, 201} ELSE {200})

\* A send whose response is not waited for: the request stays in flight.
NotAwaited(flight, k) == flight

\* `.send().await`: control comes back to main when the response to request
\* k, or the error that stands for it, has been observed.
Awaited(flight, k) == flight \ {k}

clIdle ==
    /\ clEnv = {}
    /\ clCommand = "other"
    /\ clParam = ""
    /\ clSource = [kind |-> "none"]
    /\ clPc = "exit"
    /\ clQueue = <<>>
    /\ clFolders = [source |-> None]
    /\ clId = 0
    /\ clDocs = [source |-> None]
    /\ clOp = "none"
    /\ clBatch = <<>>
    /\ clIdx = 0
    /\ clRes = <<>>
    /\ clBar = 0
    /\ clWire = <<>>
    /\ clFlight = {}
    /\ clAuthAns = None
    /\ clFailed = {}
    /\ clLost = {}
    /\ clExit = "Ok"

clInit ==
    /\ clEnv \in CliEnvs
    /\ clCommand \in CliCommands
    /\ clParam \in CliParams
    /\ clSource \in CliSources
    /\ clPc = "start"
    /\ clQueue = <<>>
    /\ clFolders = [source |-> None]
    /\ clId = 0
    /\ clDocs = [source |-> None]
    /\ clOp = "none"
    /\ clBatch = <<>>
    /\ clIdx = 0
    /\ clRes = <<>>
    /\ clBar = 0
    /\ clWire = <<>>
    /\ clFlight = {}
    /\ clAuthAns = None
    /\ clFailed = {}
    /\ clLost = {}
    /\ clExit = "running"

clInput == <<clEnv, clCommand, clParam, clSource>>

clPage == <<clFolders, clId, clDocs>>

clLoop == <<clOp, clBatch, clIdx, clRes, clBar>>

\* main returns: Ok(()), the error a `?` propagated, or a panic.
ClReturn(kind) ==
    /\ clPc' = "exit"
    /\ clExit' = kind

\* A request goes on the wire and main waits for its response at pc.
ClIssue(request, pc) ==
    /\ clWire' = Append(clWire, request)
    /\ clFlight' = clFlight \cup {Len(clWire) + 1}
    /\ clPc' = pc
    /\ UNCHANGED clExit

\* The response to the last request issued has come back.
ClObserved == clFlight' = Awaited(clFlight, Len(clWire))

\* std::env::var(..)? of a credential variable or of AUTHENTICATE fails.
ClEnvMissing ==
    /\ clPc = "start"
    /\ ~ (CredentialVars \cup {"AUTHENTICATE"} \subseteq clEnv)
    /\ ClReturn("Err")
    /\ UNCHANGED <<clInput, clQueue, clPage, clLoop, clWire, clFlight, clAuthAns, clFailed, clLost>>
    /\ UNCHANGED clFrame

\* The credential is built and auth.authorize(&url) sends its request.
ClAuthorize ==
    /\ clPc = "start"
    /\ CredentialVars \cup {"AUTHENTICATE"} \subseteq clEnv
    /\ ClIssue(AuthenticateRequest, "auth_sent")
    /\ UNCHANGED <<clInput, clQueue, clPage, clLoop, clAuthAns, clFailed, clLost>>
    /\ UNCHANGED clFrame

\* authorize returns: `?` ends main unless the answer is a 200 with a token.
ClAuthAnswer ==
    /\ clPc = "auth_sent"
    /\ \E outcome \in CliOutcomes :
        /\ clAuthAns' = Some(outcome)
        /\ IF HxResult(outcome).kind = "Ok"
           THEN clPc' = "dispatch" /\ UNCHANGED clExit
           ELSE ClReturn("Err")
    /\ ClObserved
    /\ UNCHANGED <<clInput, clQueue, clPage, clLoop, clWire, clFailed, clLost>>
    /\ UNCHANGED clFrame

\* The `_ => {}` arm of the match.
ClNoCommand ==
    /\ clPc = "dispatch"
    /\ clCommand = "other"
    /\ ClReturn("Ok")
    /\ UNCHANGED <<clInput, clQueue, clPage, clLoop, clWire, clFlight, clAuthAns, clFailed, clLost>>
    /\ UNCHANGED clFrame

\* report: the query of all documents, before the folders are asked for.
ClTotalQuery ==
    /\ clPc = "dispatch"
    /\ clCommand = "report"
    /\ IF "DOCUMENT" \in clEnv
       THEN ClIssue(DocumentsRequest(None), "total_sent")
       ELSE ClReturn("Err") /\ UNCHANGED <<clWire, clFlight>>
    /\ UNCHANGED <<clInput, clQueue, clPage, clLoop, clAuthAns, clFailed, clLost>>
    /\ UNCHANGED clFrame

ClTotalAnswer ==
    /\ clPc = "total_sent"
    /\ \E outcome \in CliOutcomes :
        IF HxResult(outcome).kind = "Ok"
        THEN clPc' = "total_done" /\ UNCHANGED clExit
        ELSE ClReturn("Err")
    /\ ClObserved
    /\ UNCHANGED <<clInput, clQueue, clPage, clLoop, clWire, clAuthAns, clFailed, clLost>>
    /\ UNCHANGED clFrame

\* std::env::var("FOLDER")? and Folders::query
ClFoldersQuery ==
    /\ \/ clPc = "dispatch" /\ clCommand \notin {"report", "other"}
       \/ clPc = "total_done"
    /\ IF "FOLDER" \in clEnv
       THEN ClIssue(FoldersRequest, "folders_sent")
       ELSE ClReturn("Err") /\ UNCHANGED <<clWire, clFlight>>
    /\ UNCHANGED <<clInput, clQueue, clPage, clLoop, clAuthAns, clFailed, clLost>>
    /\ UNCHANGED clFrame

\* Folders::query returns.  get_links reads DOCUMENT next, sync_folder its
\* source directory; then the lookups of the command begin.
ClFoldersAnswer ==
    /\ clPc = "folders_sent"
    /\ \E outcome \in CliOutcomes, page \in CliFolderPages :
        IF HxResult(outcome).kind # "Ok"
        THEN ClReturn("Err") /\ UNCHANGED <<clFolders, clQueue>>
        ELSE /\ clFolders' = page
             /\ IF clCommand = "get_links" /\ "DOCUMENT" \notin clEnv
                THEN ClReturn("Err") /\ UNCHANGED clQueue
                ELSE IF clCommand = "sync_folder" /\ clSource.kind = "none"
                     THEN ClReturn("Ok") /\ UNCHANGED clQueue
                     ELSE IF clCommand = "sync_folder" /\ clSource.kind = "unreadable"
                          THEN ClReturn("Err") /\ UNCHANGED clQueue
                          ELSE /\ clQueue' = Lookups(clCommand, clParam)
                               /\ clPc' = "lookup"
                               /\ UNCHANGED clExit
    /\ ClObserved
    /\ UNCHANGED <<clInput, clId, clDocs, clLoop, clWire, clAuthAns, clFailed, clLost>>
    /\ UNCHANGED clFrame

\* get_id gives None: the command goes on to its next folder.
ClLookupAbsent ==
    /\ clPc = "lookup"
    /\ clQueue # <<>>
    /\ GetId(clFolders, Head(clQueue)) = None
    /\ clQueue' = Tail(clQueue)
    /\ UNCHANGED <<clInput, clPc, clPage, clLoop, clWire, clFlight, clAuthAns, clFailed, clLost, clExit>>
    /\ UNCHANGED clFrame

\* inspect_folder prints the folder of the id and asks for no documents.
ClLookupInspect ==
    /\ clPc = "lookup"
    /\ clQueue # <<>>
    /\ clCommand = "inspect_folder"
    /\ GetId(clFolders, Head(clQueue)) # None
    /\ clQueue' = Tail(clQueue)
    /\ clId' = Unwrap(GetId(clFolders, Head(clQueue)))
    /\ UNCHANGED <<clInput, clPc, clFolders, clDocs, clLoop, clWire, clFlight, clAuthAns, clFailed, clLost, clExit>>
    /\ UNCHANGED clFrame

\* get_id gives Some(id): args.filter, DocInfo::new and Documents::query
ClLookupQuery ==
    /\ clPc = "lookup"
    /\ clQueue # <<>>
    /\ clCommand # "inspect_folder"
    /\ GetId(clFolders, Head(clQueue)) # None
    /\ clId' = Unwrap(GetId(clFolders, Head(clQueue)))
    /\ IF "DOCUMENT" \in clEnv
       THEN ClIssue(DocumentsRequest(GetId(clFolders, Head(clQueue))), "docs_sent")
       ELSE ClReturn("Err") /\ UNCHANGED <<clWire, clFlight>>
    /\ UNCHANGED <<clInput, clQueue, clFolders, clDocs, clLoop, clAuthAns, clFailed, clLost>>
    /\ UNCHANGED clFrame

\* Documents::query returns.  get_links writes its file, report and
\* folder_count only read the page, sync_folder and delete_folder_content
\* begin a batch.
ClDocsAnswer ==
    /\ clPc = "docs_sent"
    /\ \E outcome \in CliOutcomes, page \in CliDocumentPages, written \in BOOLEAN :
        IF HxResult(outcome).kind # "Ok"
        THEN ClReturn("Err") /\ UNCHANGED <<clDocs, clQueue, clLoop>>
        ELSE /\ clDocs' = page
             /\ IF clCommand \in {"sync_folder", "delete_folder_content"}
                THEN /\ clOp' = FirstBatch(clCommand)
                     /\ clBatch' \in BatchItems(FirstBatch(clCommand),
                                               clSource.names, page)
                     /\ clIdx' = 1
                     /\ clRes' = <<>>
                     /\ clBar' = 0
                     /\ clPc' = "batch"
                     /\ UNCHANGED <<clQueue, clExit>>
                ELSE IF ~ written
                     THEN /\ clCommand = "get_links"
                          /\ ClReturn("Err")
                          /\ UNCHANGED <<clQueue, clLoop>>
                     ELSE /\ clQueue' = Tail(clQueue)
                          /\ clPc' = "lookup"
                          /\ UNCHANGED <<clLoop, clExit>>
    /\ ClObserved
    /\ UNCHANGED <<clInput, clFolders, clId, clWire, clAuthAns, clFailed, clLost>>
    /\ UNCHANGED clFrame

\* File::open(path)? fails for the file of the item: upload returns.
ClReadFails ==
    /\ clPc = "batch"
    /\ clOp = "upload"
    /\ clIdx <= Len(clBatch)
    /\ ClReturn("Err")
    /\ UNCHANGED <<clInput, clQueue, clPage, clLoop, clWire, clFlight, clAuthAns, clFailed, clLost>>
    /\ UNCHANGED clFrame

\* The request of item clIdx of the batch is sent.
ClItemSend ==
    /\ clPc = "batch"
    /\ clIdx <= Len(clBatch)
    /\ ClIssue(ItemRequest(clOp, clBatch[clIdx], clId), "item_sent")
    /\ UNCHANGED <<clInput, clQueue, clPage, clLoop, clAuthAns, clFailed, clLost>>
    /\ UNCHANGED clFrame

\* The answer to the item: the loop goes on, or `?` ends the batch and main.
ClItemAnswer ==
    /\ clPc = "item_sent"
    /\ \E outcome \in ItemOutcomes :
        /\ clFailed' = IF ItemFault(clOp, outcome)
                       THEN clFailed \cup {Len(clWire)}
                       ELSE clFailed
        /\ clLost' = IF outcome.kind = "error"
                     THEN clLost \cup {Len(clWire)}
                     ELSE clLost
        /\ clBar' = BarAfter(clOp, clBar, clBatch[clIdx], outcome)
        /\ IF ItemGoesOn(clOp, clBatch[clIdx], outcome)
           THEN /\ clIdx' = clIdx + 1
                /\ clRes' = ItemPush(clOp, clRes, clBatch[clIdx], outcome)
                /\ clPc' = "batch"
                /\ UNCHANGED clExit
           ELSE /\ ClReturn("Err")
                /\ clRes' = <<>>
                /\ UNCHANGED clIdx
    /\ ClObserved
    /\ UNCHANGED <<clInput, clQueue, clPage, clOp, clBatch, clWire, clAuthAns>>
    /\ UNCHANGED clFrame

\* The batch returned Ok: docs.delete follows docs.update over the same
\* docs; after the last batch the arm of the command ends.
ClBatchDone ==
    /\ clPc = "batch"
    /\ clIdx > Len(clBatch)
    /\ IF NextBatch(clOp) = "none"
       THEN /\ clQueue' = Tail(clQueue)
            /\ clPc' = "lookup"
            /\ UNCHANGED clLoop
       ELSE /\ clOp' = NextBatch(clOp)
            /\ clBatch' \in BatchItems(NextBatch(clOp), <<>>, clDocs)
            /\ clIdx' = 1
            /\ clRes' = <<>>
            /\ clBar' = 0
            /\ UNCHANGED <<clQueue, clPc>>
    /\ UNCHANGED <<clInput, clPage, clWire, clFlight, clAuthAns, clFailed, clLost, clExit>>
    /\ UNCHANGED clFrame

\* The arm of the command is through.  report builds its items and may
\* write them: try_from can panic and to_csv can fail.
ClDone ==
    /\ clPc = "lookup"
    /\ clQueue = <<>>
    /\ \E kind \in {"Ok", "Err", "panic"} :
        /\ kind # "Ok" => clCommand = "report"
        /\ ClReturn(kind)
    /\ UNCHANGED <<clInput, clQueue, clPage, clLoop, clWire, clFlight, clAuthAns, clFailed, clLost>>
    /\ UNCHANGED clFrame

clNext ==
    \/ ClEnvMissing
    \/ ClAuthorize
    \/ ClAuthAnswer
    \/ ClNoCommand
    \/ ClTotalQuery
    \/ ClTotalAnswer
    \/ ClFoldersQuery
    \/ ClFoldersAnswer
    \/ ClLookupAbsent
    \/ ClLookupInspect
    \/ ClLookupQuery
    \/ ClDocsAnswer
    \/ ClReadFails
    \/ ClItemSend
    \/ ClItemAnswer
    \/ ClBatchDone
    \/ ClDone

\* The positions on the wire of the requests of a kind.
ClSent(kind) == {k \in 1..Len(clWire) : clWire[k].kind = kind}

\* The ids of the documents of the page the command queried, in page order.
ClPageIds ==
    IF IsSome(clDocs.source)
    THEN [i \in 1..Len(Unwrap(clDocs.source)) |-> Unwrap(clDocs.source)[i].id]
    ELSE <<>>

\* The document ids of the requests of a kind, in the order they were sent.
RECURSIVE ClIdsSent(_, _)
ClIdsSent(kind, k) ==
    IF k = 0
    THEN <<>>
    ELSE IF clWire[k].kind = kind
         THEN Append(ClIdsSent(kind, k - 1), clWire[k].of[1])
         ELSE ClIdsSent(kind, k - 1)

\* C22: at most one HTTP request is in flight at any moment of an
\* invocation, authentication, queries and batch items included, and a
\* request is only ever issued when the responses to all requests before it
\* have been observed.
C22_OneRequestInFlight ==
    /\ [](Cardinality(clFlight) <= 1)
    /\ [][Len(clWire') > Len(clWire) => clFlight = {}]_vars

\* The request of the second item of a batch is in flight.
C22_Witness ==
    /\ clPc = "item_sent"
    /\ clIdx = 2
    /\ clFlight = {Len(clWire)}

\* C24: in delete_folder_content no DELETE is sent before every document of
\* the queried page had its PUT "draft" answered, each DELETE comes after
\* the PUT of its own document, DELETEs are sent only when no PUT ended the
\* update batch, and both batches run over the one page queried before them.
C24_UpdateThenDelete ==
    clCommand = "delete_folder_content" =>
        /\ Cardinality(ClSent("documents")) <= 1
        /\ \A p \in ClSent("update") :
            /\ clWire[p].of[2] = "draft"
            /\ \E q \in ClSent("documents") : q < p
        /\ ClSent("delete") # {} =>
            /\ ClIdsSent("update", Len(clWire)) = ClPageIds
            /\ ClSent("update") \cap (clFlight \cup clFailed) = {}
        /\ \A d \in ClSent("delete") :
            /\ \A p \in ClSent("update") : p < d
            /\ \E p \in ClSent("update") : clWire[p].of[1] = clWire[d].of[1]
        /\ \E n \in 0..Len(ClPageIds) :
            ClIdsSent("delete", Len(clWire)) = SubSeq(ClPageIds, 1, n)
        /\ \E n \in 0..Len(ClPageIds) :
            ClIdsSent("update", Len(clWire)) = SubSeq(ClPageIds, 1, n)

\* The command got through a page of two documents: two PUTs, two DELETEs.
C24_Witness ==
    /\ clCommand = "delete_folder_content"
    /\ clExit = "Ok"
    /\ Len(ClPageIds) = 2
    /\ Cardinality(ClSent("delete")) = 2

\* The local stems that name no document with a url on the queried page.
ClNotLinked ==
    {n \in DOMAIN clSource.names :
        ~ \E i \in 1..Len(ClPageIds) :
            /\ Unwrap(clDocs.source)[i].name = n
            /\ Unwrap(clDocs.source)[i].url # None}

ClPosted == {clWire[k].of[1].Name : k \in ClSent("upload")}

ClTokenIssued ==
    /\ IsSome(clAuthAns)
    /\ Unwrap(clAuthAns).kind = "response"
    /\ Unwrap(clAuthAns).status = 200
    /\ Unwrap(clAuthAns).json

\* C26: a folder or document request is on the wire only when all
\* credential variables were set, the authentication request went first and
\* was answered 200 with a parsable token; with a credential variable
\* missing main returns an error with nothing sent, and after a failed
\* authentication it has returned an error with nothing else sent.
C26_AuthenticatedFirst ==
    /\ \A k \in 1..Len(clWire) :
        clWire[k].kind # "authenticate" =>
            /\ CredentialVars \subseteq clEnv
            /\ k > 1
            /\ clWire[1].kind = "authenticate"
            /\ ClTokenIssued
    /\ Cardinality(ClSent("authenticate")) <= 1
    /\ ~ (CredentialVars \subseteq clEnv) =>
        /\ clWire = <<>>
        /\ clPc = "start" \/ clExit = "Err"
    /\ IsSome(clAuthAns) /\ ~ ClTokenIssued =>
        /\ Len(clWire) = 1
        /\ clExit = "Err"

\* A document query is on the wire.
C26_Witness == ClSent("documents") # {}

\* Authentication was refused and main has returned.
C26_WitnessRefused ==
    /\ IsSome(clAuthAns)
    /\ ~ ClTokenIssued
    /\ clExit = "Err"

\* The stems POSTed, in the order their requests were sent.
RECURSIVE ClNamesPosted(_)
ClNamesPosted(k) ==
    IF k = 0
    THEN <<>>
    ELSE IF clWire[k].kind = "upload"
         THEN Append(ClNamesPosted(k - 1), clWire[k].of[1].Name)
         ELSE ClNamesPosted(k - 1)

\* The items the batch that runs has sent a request for, in sending order.
ClItemsSent ==
    IF clOp = "upload" THEN ClNamesPosted(Len(clWire)) ELSE ClIdsSent(clOp, Len(clWire))

\* TRUE when seq is a prefix of all.
IsPrefix(seq, all) == Len(seq) <= Len(all) /\ seq = SubSeq(all, 1, Len(seq))

\* TRUE when the results are answers to items sent, in the order the items
\* were sent: position i of the results is mapped to a position of the
\* items, strictly increasing with i.
InSendingOrder(res, sent) ==
    \E at \in [1..Len(res) -> 1..Len(sent)] :
        /\ \A i \in 1..Len(res) : res[i].response_to = sent[at[i]]
        /\ \A i, j \in 1..Len(res) : i < j => at[i] < at[j]

\* The one order a set of stems would be taken in, were it fixed by the set.
FixedOrder(stems) == CHOOSE order \in IterationOrders(stems) : TRUE

\* C23 as stated: every batch, upload included, sends its requests in the one
\* order its collection fixes, so that two runs over one collection send the
\* same sequence, and its results are in that order.
C23_FixedOrderAllBatches ==
    /\ clCommand = "delete_folder_content" =>
        /\ IsPrefix(ClIdsSent("update", Len(clWire)), ClPageIds)
        /\ IsPrefix(ClIdsSent("delete", Len(clWire)), ClPageIds)
    /\ clCommand = "sync_folder" /\ clOp = "upload" =>
        IsPrefix(ClNamesPosted(Len(clWire)), FixedOrder(ClNotLinked))
    /\ clOp # "none" /\ clExit # "Err" => InSendingOrder(clRes, ClItemsSent)

\* C23 (amended): update and delete send their requests in the order of the
\* page and their results hold one entry per document answered, in that
\* order; upload sends one request per stem in an order the collection does
\* not fix, and its results are in the order the requests were sent.
C23_PageOrderForDocuments ==
    /\ clCommand = "delete_folder_content" =>
        /\ IsPrefix(ClIdsSent("update", Len(clWire)), ClPageIds)
        /\ IsPrefix(ClIdsSent("delete", Len(clWire)), ClPageIds)
        /\ clOp # "none" /\ clExit # "Err" =>
            /\ Len(clRes) = clIdx - 1
            /\ \A i \in 1..Len(clRes) : clRes[i].response_to = ClPageIds[i]
    /\ clCommand = "sync_folder" /\ clOp = "upload" =>
        /\ \A i, j \in 1..Len(ClNamesPosted(Len(clWire))) :
            ClNamesPosted(Len(clWire))[i] = ClNamesPosted(Len(clWire))[j] => i = j
        /\ \A i \in 1..Len(ClNamesPosted(Len(clWire))) :
            ClNamesPosted(Len(clWire))[i] \in ClNotLinked
        /\ clExit # "Err" => InSendingOrder(clRes, ClNamesPosted(Len(clWire)))

\* An upload of two stems returned both of its results, and so did the
\* deletes of a page of two documents.
C23_Witness ==
    /\ clCommand = "sync_folder"
    /\ clExit = "Ok"
    /\ Len(clRes) = 2

C23_WitnessDocuments ==
    /\ clCommand = "delete_folder_content"
    /\ clExit = "Ok"
    /\ Len(clRes) = 2

\* The stems of an upload were sent in an order other than the fixed one.
C23_WitnessOtherOrder ==
    /\ clCommand = "sync_folder"
    /\ Len(ClNamesPosted(Len(clWire))) = 2
    /\ ClNamesPosted(Len(clWire)) # FixedOrder(ClNotLinked)

\* The requests of a batch that a response has come back for.
ClAnswered(kind) == ClSent(kind) \ (clFlight \cup clLost)

\* TRUE when the batch that runs has gone through all of its items.
ClBatchThrough ==
    /\ clOp # "none"
    /\ \/ clPc = "batch" /\ clIdx > Len(clBatch)
       \/ clExit = "Ok"

\* C27 as stated: in upload, update and delete alike the bar stands at the
\* number of items answered so far, whatever the answers were, and at the
\* number of items when the batch is through.
C27_BarCountsAnswers ==
    /\ clOp # "none" => clBar = Cardinality(ClAnswered(clOp))
    /\ ClBatchThrough => clBar = Len(clBatch)

\* C27 (amended): the bar of upload stands at the number of items answered,
\* whatever the status and the body of the answers; the bar of update and of
\* delete stands at the number of items whose answer gave a result, which
\* leaves out an answer of status 200 whose body does not parse or any answer
\* whose body cannot be read; the bar of a batch that is through stands at
\* its number of items.
C27_BarCountsResults ==
    /\ clOp = "upload" => clBar = Cardinality(ClAnswered("upload"))
    /\ clOp \in {"update", "delete"} =>
        /\ clBar = Cardinality(ClAnswered(clOp) \ clFailed)
        /\ clExit # "Err" => clBar = Len(clRes)
    /\ ClBatchThrough => clBar = Len(clBatch)

\* An upload of two files is through with no result: both answers had a
\* failure status, and the bar stands at two.
C27_Witness ==
    /\ clCommand = "sync_folder"
    /\ clExit = "Ok"
    /\ clRes = <<>>
    /\ clBar = 2

\* C28: when the request of an item of upload, update or delete gets no
\* response, or the body of its answer cannot be read or, under a success
\* status, does not parse, the batch returns an error at once: that request
\* is the last one sent, main has returned the error, and no result of the
\* items before it is left.
C28_FaultEndsBatch ==
    \A k \in clFailed :
        /\ k = Len(clWire)
        /\ clFailed = {k}
        /\ clPc = "exit"
        /\ clExit = "Err"
        /\ clRes = <<>>
        /\ clIdx <= Len(clBatch)

\* The second of two deletes met a fault: the batch gave up with the result
\* of the first delete collected.
C28_Witness ==
    /\ clOp = "delete"
    /\ clIdx = 2
    /\ Len(clBatch) = 2
    /\ clFailed = {Len(clWire)}

\* The first of two POSTs got no response and the second was never sent.
C28_WitnessUpload ==
    /\ clOp = "upload"
    /\ clIdx = 1
    /\ Len(clBatch) = 2
    /\ clLost = {Len(clWire)}

(***************************************************************************)
(* Specifications: one per component                                       *)
(***************************************************************************)
InitBuilder == ubInit /\ dqInit /\ foIdle /\ hxInit /\ upIdle /\ dcIdle /\ tsIdle /\ niIdle /\ rpIdle /\ diIdle /\ seIdle /\ lkIdle /\ clIdle

SpecBuilder == InitBuilder /\ [][ubNext]_vars

InitQuery == dqInit /\ ubInit /\ foIdle /\ hxInit /\ upIdle /\ dcIdle /\ tsIdle /\ niIdle /\ rpIdle /\ diIdle /\ seIdle /\ lkIdle /\ clIdle

SpecQuery == InitQuery /\ [][dqNext]_vars

InitFolders == foInit /\ ubInit /\ dqInit /\ hxInit /\ upIdle /\ dcIdle /\ tsIdle /\ niIdle /\ rpIdle /\ diIdle /\ seIdle /\ lkIdle /\ clIdle

SpecFolders == InitFolders /\ [][foNext]_vars

InitRequest == hxInit /\ ubInit /\ dqInit /\ foIdle /\ upIdle /\ dcIdle /\ tsIdle /\ niIdle /\ rpIdle /\ diIdle /\ seIdle /\ lkIdle /\ clIdle

SpecRequest == InitRequest /\ [][hxNext]_vars

InitUpload == upInit /\ ubInit /\ dqInit /\ foIdle /\ hxInit /\ dcIdle /\ tsIdle /\ niIdle /\ rpIdle /\ diIdle /\ seIdle /\ lkIdle /\ clIdle

SpecUpload == InitUpload /\ [][upNext]_vars

InitDocuments == dcInit /\ ubInit /\ dqInit /\ foIdle /\ hxInit /\ upIdle /\ tsIdle /\ niIdle /\ rpIdle /\ diIdle /\ seIdle /\ lkIdle /\ clIdle

SpecDocuments == InitDocuments /\ [][dcNext]_vars

InitSize == tsInit /\ ubInit /\ dqInit /\ foIdle /\ hxInit /\ upIdle /\ dcIdle /\ niIdle /\ rpIdle /\ diIdle /\ seIdle /\ lkIdle /\ clIdle

SpecSize == InitSize /\ [][tsNext]_vars

InitNotIn == niInit /\ ubInit /\ dqInit /\ foIdle /\ hxInit /\ upIdle /\ dcIdle /\ tsIdle /\ rpIdle /\ diIdle /\ seIdle /\ lkIdle /\ clIdle

SpecNotIn == InitNotIn /\ [][niNext]_vars

InitReport == rpInit /\ ubInit /\ dqInit /\ foIdle /\ hxInit /\ upIdle /\ dcIdle /\ tsIdle /\ niIdle /\ diIdle /\ seIdle /\ lkIdle /\ clIdle

SpecReport == InitReport /\ [][rpNext]_vars

InitInfo == diInit /\ ubInit /\ dqInit /\ foIdle /\ hxInit /\ upIdle /\ dcIdle /\ tsIdle /\ niIdle /\ rpIdle /\ seIdle /\ lkIdle /\ clIdle

SpecInfo == InitInfo /\ [][diNext]_vars

InitSession == seInit /\ ubInit /\ dqInit /\ foIdle /\ hxInit /\ upIdle /\ dcIdle /\ tsIdle /\ niIdle /\ rpIdle /\ diIdle /\ lkIdle /\ clIdle

SpecSession == InitSession /\ [][seNext]_vars

InitLinks == lkInit /\ ubInit /\ dqInit /\ foIdle /\ hxInit /\ upIdle /\ dcIdle /\ tsIdle /\ niIdle /\ rpIdle /\ diIdle /\ seIdle /\ clIdle

SpecLinks == InitLinks /\ [][lkNext]_vars

InitCli == clInit /\ ubInit /\ dqInit /\ foIdle /\ hxInit /\ upIdle /\ dcIdle /\ tsIdle /\ niIdle /\ rpIdle /\ diIdle /\ seIdle /\ lkIdle

SpecCli == InitCli /\ [][clNext]_vars

====
